---- MODULE Spec2Model ----
(***************************************************************************)
(* Train network simulation (simulation_model.py): junctions joined by     *)
(* tracks, trains that move one track per advance(), junction switches and *)
(* track signals arbitrated by ascending train identifier.                 *)
(*                                                                         *)
(* A scene is the content of a simulation document (or of main.py's graph  *)
(* construction): the add_edge calls in order, and the signals of each     *)
(* track.  The graph helpers below follow networkx.Graph: nodes and        *)
(* adjacency are kept in insertion order, and graph.edges enumerates       *)
(* (u, v) with u the endpoint that was inserted first.  The graph of a     *)
(* scene is a record g that the operations take as their first argument.   *)
(***************************************************************************)
EXTENDS Integers, Sequences, FiniteSets, TLC

VARIABLES
    scene,                      \* index of the graph the Simulation was built on
    train,                      \* Track.train: track ident -> train ident or NoTrain
    facing_junction,            \* Train.facing_junction: train ident -> junction ident
    dest_junction,              \* Train.dest_junction: train ident -> junction ident
    trains_routed_along_track,  \* Track.trains_routed_along_track: track ident -> set of trains
    switch_state,               \* Junction.switch_state: junction ident -> <<j1, j2>>
    signal_state,               \* TrainSignal.signal_state: signal -> BOOLEAN
    step,                       \* Simulation.step
    result,                     \* outcome of the last call: "none", "true", "false", "raised", ...
    next_ident,                 \* _next_ident, where MaxIdent stands for MaxIdent or more
    issued,                     \* the idents of the entities constructed outside a load, in order
    file                        \* the document in the simulation file the program saves to

vars == <<scene, train, facing_junction, dest_junction, trains_routed_along_track,
          switch_state, signal_state, step, result, next_ident, issued, file>>

\* Bounds of the model.
MaxStep == 5
MaxTrains == 2
MaxIdent == 12

\* Track.train is None when no train is on the track.
NoTrain == -1

(***************************************************************************)
(* Sequence helpers.                                                       *)
(***************************************************************************)
InSeq(x, s) == \E i \in 1..Len(s) : s[i] = x

SeqToSet(s) == {s[i] : i \in 1..Len(s)}

RECURSIVE Flatten(_)
Flatten(ss) == IF ss = <<>> THEN <<>> ELSE Head(ss) \o Flatten(Tail(ss))

RECURSIVE SortAsc(_)
\* sorted(..., key=ident) of a set of identifiers
SortAsc(S) ==
    IF S = {} THEN <<>>
    ELSE LET m == CHOOSE x \in S : \A y \in S : x <= y
         IN  <<m>> \o SortAsc(S \ {m})

\* Index of the first element of s that satisfies Test, 0 if none.
FirstIndex(s, Test(_)) ==
    IF \E i \in 1..Len(s) : Test(s[i])
    THEN CHOOSE i \in 1..Len(s) : Test(s[i]) /\ \A k \in 1..(i - 1) : ~Test(s[k])
    ELSE 0

(***************************************************************************)
(* Scenes.  edges: <<from, to, track ident>> in add_edge order.            *)
(* signals: a <<signal ident, track ident, attached junction>> record for  *)
(* every TrainSignal object, in the order of the track's train_signals     *)
(* list; a signal is known by the number of its record, as two TrainSignal *)
(* objects may carry one ident.  trains: <<>> when the placement is  *)
(* left open, else <<train ident, track ident, facing, dest>> records.     *)
(***************************************************************************)
\* Scenario A: three junctions in a line.
LineScene ==
    [edges   |-> << <<0, 1, 10>>, <<1, 2, 11>> >>,
     signals |-> << >>,
     trains  |-> << >>]

\* Four junctions in a line, declared out of order, a signal before junction 1.
SignalLineScene ==
    [edges   |-> << <<1, 0, 10>>, <<1, 2, 11>>, <<3, 2, 12>> >>,
     signals |-> << <<30, 10, 1>> >>,
     trains  |-> << >>]

\* Scenario B: junction 1 is a fork; a signal guards its approach from junction 0.
ForkScene ==
    [edges   |-> << <<0, 1, 10>>, <<1, 2, 11>>, <<1, 3, 12>> >>,
     signals |-> << <<30, 10, 1>> >>,
     trains  |-> << >>]

\* A triangle with a tail: more than one simple path between junctions.
LoopScene ==
    [edges   |-> << <<0, 1, 10>>, <<1, 2, 11>>, <<2, 0, 12>>, <<2, 3, 13>> >>,
     signals |-> << >>,
     trains  |-> << >>]

\* The graph main() builds, with the identifiers the constructors issue.
MainScene ==
    [edges   |-> << <<8, 0, 11>>, <<0, 1, 13>>, <<1, 9, 15>>, <<9, 2, 16>>, <<1, 3, 17>>,
                    <<3, 7, 18>>, <<7, 5, 19>>, <<3, 4, 20>>, <<4, 6, 21>>, <<2, 4, 23>> >>,
     signals |-> << <<12, 13, 1>>, <<14, 15, 1>> >>,
     trains  |-> << <<10, 11, 0, 6>>, <<22, 23, 2, 5>> >>]

\* A fork whose document lists the tracks out of identifier order, the first
\* from the higher junction, with two signals on it in descending order.
ShuffledScene ==
    [edges   |-> << <<2, 1, 12>>, <<0, 1, 10>>, <<1, 3, 11>> >>,
     signals |-> << <<31, 12, 1>>, <<30, 12, 2>> >>,
     trains  |-> << >>]

\* A line whose document lists the higher track first, each track from its
\* higher junction, with two signals on the first in descending order.
ReversedScene ==
    [edges   |-> << <<2, 1, 11>>, <<1, 0, 10>> >>,
     signals |-> << <<31, 11, 1>>, <<30, 11, 2>> >>,
     trains  |-> << >>]

\* A line whose document lists the higher track first; the signal of the
\* second track record is attached to junction 0, which the first record
\* made known and which is no end of its track.
OffTrackScene ==
    [edges   |-> << <<0, 1, 11>>, <<1, 2, 10>> >>,
     signals |-> << <<30, 10, 0>> >>,
     trains  |-> << >>]

Scenes ==
    <<LineScene, SignalLineScene, ForkScene, LoopScene, MainScene, ShuffledScene, ReversedScene,
      OffTrackScene>>

SceneIds == 1..Len(Scenes)

\* Identifiers of the trains of an open placement, in construction order.
TrainIdent(n) == 40 + n

(***************************************************************************)
(* networkx.Graph built by add_edge: node order, adjacency order, edges.   *)
(***************************************************************************)
RECURSIVE NodesFrom(_, _)
\* graph.nodes: add_edge(u, v) inserts u, then v, when they are new
NodesFrom(es, acc) ==
    IF es = <<>> THEN acc
    ELSE NodesFrom(Tail(es),
                   (IF InSeq(Head(es)[1], acc) THEN acc ELSE Append(acc, Head(es)[1]))
                   \o (IF InSeq(Head(es)[2], acc) \/ Head(es)[2] = Head(es)[1]
                       THEN <<>> ELSE <<Head(es)[2]>>))

RECURSIVE AdjFrom(_, _, _)
\* graph.adj[n]: the neighbours of n in the order their edges were added
AdjFrom(es, n, acc) ==
    IF es = <<>> THEN acc
    ELSE IF Head(es)[1] = n /\ ~InSeq(Head(es)[2], acc)
    THEN AdjFrom(Tail(es), n, Append(acc, Head(es)[2]))
    ELSE IF Head(es)[2] = n /\ ~InSeq(Head(es)[1], acc)
    THEN AdjFrom(Tail(es), n, Append(acc, Head(es)[1]))
    ELSE AdjFrom(Tail(es), n, acc)

\* graph.edges from one node: (n, nbr) for nbr in adj[n] unless nbr was seen
EdgesFromNode(nodes, adj, i) ==
    [k \in 1..Len(SelectSeq(adj, LAMBDA w : ~InSeq(w, SubSeq(nodes, 1, i - 1)))) |->
        <<nodes[i], SelectSeq(adj, LAMBDA w : ~InSeq(w, SubSeq(nodes, 1, i - 1)))[k]>>]

\* graph.edges: for n in nodes, for nbr in adj[n]
EdgeView(nodes, adj) ==
    Flatten([i \in 1..Len(nodes) |-> EdgesFromNode(nodes, adj[nodes[i]], i)])

\* graph.edges[(a, b)]['object'] for both orders of every edge: add_edge on
\* an edge that exists replaces its 'object', so the last call counts
TrackTable(es) ==
    [e \in {<<es[i][1], es[i][2]>> : i \in 1..Len(es)} \cup
           {<<es[i][2], es[i][1]>> : i \in 1..Len(es)} |->
        es[CHOOSE i \in 1..Len(es) :
              /\ {es[i][1], es[i][2]} = {e[1], e[2]}
              /\ \A k \in (i + 1)..Len(es) : {es[k][1], es[k][2]} # {e[1], e[2]}][3]]

(***************************************************************************)
(* Path enumeration of networkx, in the order its generators yield.        *)
(***************************************************************************)
RECURSIVE BfsVisit(_, _, _)
\* networkx.predecessor, inner loops: for v in thislevel: for w in G[v]
BfsVisit(pairs, st, level) ==
    IF pairs = <<>> THEN st
    ELSE IF st.seen[Head(pairs)[2]] = -1
    THEN BfsVisit(Tail(pairs),
                  [seen |-> [st.seen EXCEPT ![Head(pairs)[2]] = level],
                   pred |-> [st.pred EXCEPT ![Head(pairs)[2]] = <<Head(pairs)[1]>>],
                   next |-> Append(st.next, Head(pairs)[2])], level)
    ELSE IF st.seen[Head(pairs)[2]] = level
    THEN BfsVisit(Tail(pairs),
                  [st EXCEPT !.pred[Head(pairs)[2]] = Append(@, Head(pairs)[1])], level)
    ELSE BfsVisit(Tail(pairs), st, level)

RECURSIVE BfsLevels(_, _, _, _)
\* networkx.predecessor, outer loop: one breadth-first level per round
BfsLevels(adj, thislevel, st, level) ==
    IF thislevel = <<>> THEN st.pred
    ELSE BfsLevels(adj,
                   BfsVisit(Flatten([i \in 1..Len(thislevel) |->
                                [k \in 1..Len(adj[thislevel[i]]) |->
                                    <<thislevel[i], adj[thislevel[i]][k]>>]]),
                            [st EXCEPT !.next = <<>>], level).next,
                   BfsVisit(Flatten([i \in 1..Len(thislevel) |->
                                [k \in 1..Len(adj[thislevel[i]]) |->
                                    <<thislevel[i], adj[thislevel[i]][k]>>]]),
                            [st EXCEPT !.next = <<>>], level),
                   level + 1)

\* networkx.predecessor(G, source): node -> list of breadth-first predecessors
Predecessor(adj, source) ==
    BfsLevels(adj, <<source>>,
              [seen |-> [n \in DOMAIN adj |-> IF n = source THEN 0 ELSE -1],
               pred |-> [n \in DOMAIN adj |-> <<>>],
               next |-> <<>>], 1)

RECURSIVE BuildPaths(_, _, _)
\* networkx._build_paths_from_predecessors: depth-first over the predecessor
\* lists from the target, each path reported source first
BuildPaths(pred, source, node) ==
    IF node = source THEN << <<source>> >>
    ELSE Flatten([i \in 1..Len(pred[node]) |->
             [k \in 1..Len(BuildPaths(pred, source, pred[node][i])) |->
                 Append(BuildPaths(pred, source, pred[node][i])[k], node)]])

\* nx.all_shortest_paths(graph, source, target), unweighted
AllShortestPaths(adj, source, target) == BuildPaths(Predecessor(adj, source), source, target)

RECURSIVE SimplePathsFrom(_, _, _)
\* networkx._all_simple_paths_graph: depth-first in adjacency order, a path
\* ends at the first visit of the target
SimplePathsFrom(adj, path, target) ==
    Flatten([i \in 1..Len(adj[path[Len(path)]]) |->
        IF InSeq(adj[path[Len(path)]][i], path) THEN <<>>
        ELSE IF adj[path[Len(path)]][i] = target
        THEN << Append(path, adj[path[Len(path)]][i]) >>
        ELSE SimplePathsFrom(adj, Append(path, adj[path[Len(path)]][i]), target)])

\* nx.all_simple_paths(graph, source, target)
AllSimplePaths(adj, source, target) ==
    IF source = target THEN <<>> ELSE SimplePathsFrom(adj, <<source>>, target)

\* itertools.chain(all_shortest_paths, all_simple_paths) for every pair of
\* junctions; <<>> when the target cannot be reached (NetworkXNoPath)
TrainPathsTable(adj) ==
    [source \in DOMAIN adj |-> [target \in DOMAIN adj |->
        IF source # target /\ Predecessor(adj, source)[target] = <<>> THEN <<>>
        ELSE AllShortestPaths(adj, source, target) \o AllSimplePaths(adj, source, target)]]

(***************************************************************************)
(* The graph record of a scene.                                            *)
(***************************************************************************)
GraphOf(scn, nodes, adj) ==
    [nodes     |-> nodes,
     adj       |-> adj,
     edges     |-> EdgeView(nodes, adj),
     track     |-> TrackTable(scn.edges),
     \* the Track objects constructed, also one replaced on its edge
     track_ids |-> {scn.edges[i][3] : i \in 1..Len(scn.edges)},
     signals   |-> scn.signals,
     \* Junction.connected_junctions as _initial_property_setup assigns it:
     \* the neighbours sorted by identifier
     connected |-> [n \in DOMAIN adj |-> SortAsc(SeqToSet(adj[n]))],
     paths     |-> TrainPathsTable(adj)]

AdjTable(es, nodes) == [n \in SeqToSet(nodes) |-> AdjFrom(es, n, <<>>)]

Graph(scn) ==
    GraphOf(scn, NodesFrom(scn.edges, <<>>), AdjTable(scn.edges, NodesFrom(scn.edges, <<>>)))

Junctions(g) == DOMAIN g.adj

\* get_all_tracks: the tracks in graph.edges order
GetAllTracks(g) == [i \in 1..Len(g.edges) |-> g.track[g.edges[i]]]

Tracks(g) == {g.track[e] : e \in DOMAIN g.track}

\* The TrainSignal objects, each the number of its record in g.signals
Signals(g) == 1..Len(g.signals)

\* TrainSignal.ident of the signals
SignalIdents(g) == {g.signals[i][1] : i \in 1..Len(g.signals)}

\* Track.train_signals of a track: its signals in the order of the list
TrainSignalsOf(g, track) ==
    SelectSeq([i \in 1..Len(g.signals) |-> i], LAMBDA i : g.signals[i][2] = track)

(***************************************************************************)
(* Persistence.  A document is what the file holds: json (the text parses), *)
(* keys (the keys of the top-level object), tracks (a list of track        *)
(* records, train_id NoTrain when the key is absent, train_signals in the  *)
(* order of the keys), trains (by ident) and train_keys (the keys of       *)
(* "trains" in the order of the file).                                     *)
(***************************************************************************)
\* save_to_file: 'green' if train_signal.signal_state else 'red'
SignalStateText(signal_state_) == IF signal_state_ THEN "green" ELSE "red"

\* load_from_file: True if signal_dict['state'] == 'green' else False
SignalStateOf(text) == text = "green"

\* save_to_file: sorted(self.graph.edges, key=track ident); edges with the
\* same track keep the order of graph.edges
SortedGraphEdges(g) ==
    [i \in 1..Len(g.edges) |->
        g.edges[CHOOSE k \in 1..Len(g.edges) :
                    Cardinality({n \in 1..Len(g.edges) :
                        \/ g.track[g.edges[n]] < g.track[g.edges[k]]
                        \/ g.track[g.edges[n]] = g.track[g.edges[k]] /\ n < k}) = i - 1]]

\* save_to_file: train_signals_dict[train_signal.ident] = {...} for every
\* signal of the track, the last signal with an ident replacing an earlier
\* one; written with sort_keys in key order
TrainSignalsDict(g, s, track) ==
    LET sigs == TrainSignalsOf(g, track)
        keys == SortAsc({g.signals[sigs[k]][1] : k \in 1..Len(sigs)})
        last == [key \in SeqToSet(keys) |->
                    sigs[CHOOSE k \in 1..Len(sigs) :
                            /\ g.signals[sigs[k]][1] = key
                            /\ \A m \in (k + 1)..Len(sigs) : g.signals[sigs[m]][1] # key]]
    IN  [i \in 1..Len(keys) |->
            [ident    |-> keys[i],
             junct_id |-> g.signals[last[keys[i]]][3],
             state    |-> SignalStateText(s.signal[last[keys[i]]])]]

\* save_to_file: track_dict of one edge
TrackDict(g, s, edge_tup) ==
    [from          |-> edge_tup[1],
     to            |-> edge_tup[2],
     track_id      |-> g.track[edge_tup],
     train_id      |-> s.train[g.track[edge_tup]],
     train_signals |-> TrainSignalsDict(g, s, g.track[edge_tup])]

\* save_to_file: trains_dict
TrainsDict(g, s) ==
    [t \in {s.train[k] : k \in DOMAIN s.train} \ {NoTrain} |->
        [facing_junction |-> s.facing[t], dest_junction |-> s.dest[t]]]

\* save_to_file: the document written
SaveToFile(g, s) ==
    [json   |-> TRUE,
     keys   |-> {"tracks", "trains"},
     tracks |-> [i \in 1..Len(g.edges) |-> TrackDict(g, s, SortedGraphEdges(g)[i])],
     trains |-> TrainsDict(g, s),
     \* json.dump(..., sort_keys=True) writes the keys of trains_dict in order
     train_keys |-> SortAsc(DOMAIN TrainsDict(g, s))]

\* load_from_file: the keys of junction_lookup after the first n track records
JunctionLookup(tracks, n) == {tracks[i].from : i \in 1..n} \cup {tracks[i].to : i \in 1..n}

\* load_from_file returns: json.load and every lookup by identifier succeed
LoadSucceeds(doc) ==
    /\ doc.json
    /\ "tracks" \in doc.keys
    /\ "trains" \in doc.keys
    /\ \A i \in 1..Len(doc.tracks) : \A k \in 1..Len(doc.tracks[i].train_signals) :
          doc.tracks[i].train_signals[k].junct_id \in JunctionLookup(doc.tracks, i)
    /\ \A t \in DOMAIN doc.trains :
          /\ doc.trains[t].dest_junction \in JunctionLookup(doc.tracks, Len(doc.tracks))
          /\ doc.trains[t].facing_junction \in JunctionLookup(doc.tracks, Len(doc.tracks))
    /\ \A i \in 1..Len(doc.tracks) :
          doc.tracks[i].train_id # NoTrain => doc.tracks[i].train_id \in DOMAIN doc.trains

\* load_from_file: track_dict['track_id'] is not in track_lookup at record i,
\* so the record constructs the Track and gives it its train_signal_list
NewTrack(tracks, i) == \A k \in 1..(i - 1) : tracks[k].track_id # tracks[i].track_id

\* load_from_file: the add_edge calls and the signals of the tracks; a record
\* whose track_id was seen adds an edge with the track constructed before,
\* and its signals are attached to no track
LoadedScene(doc) ==
    [edges   |-> [i \in 1..Len(doc.tracks) |->
                    <<doc.tracks[i].from, doc.tracks[i].to, doc.tracks[i].track_id>>],
     signals |-> Flatten([i \in 1..Len(doc.tracks) |->
                    IF ~NewTrack(doc.tracks, i) THEN << >>
                    ELSE [k \in 1..Len(doc.tracks[i].train_signals) |->
                            <<doc.tracks[i].train_signals[k].ident, doc.tracks[i].track_id,
                              doc.tracks[i].train_signals[k].junct_id>>]]),
     trains  |-> << >>]

\* load_from_file: the trains set in the track objects
LoadedPlacement(doc) ==
    [i \in 1..Len(SelectSeq(doc.tracks, LAMBDA td : td.train_id # NoTrain)) |->
        <<SelectSeq(doc.tracks, LAMBDA td : td.train_id # NoTrain)[i].train_id,
          SelectSeq(doc.tracks, LAMBDA td : td.train_id # NoTrain)[i].track_id,
          doc.trains[SelectSeq(doc.tracks, LAMBDA td : td.train_id # NoTrain)[i].train_id].facing_junction,
          doc.trains[SelectSeq(doc.tracks, LAMBDA td : td.train_id # NoTrain)[i].train_id].dest_junction>>]

\* load_from_file: train_signal.signal_state of every signal of the tracks:
\* each record constructs a TrainSignal of its own (signal_lookup stays empty)
LoadedSignals(doc) ==
    Flatten([i \in 1..Len(doc.tracks) |->
        IF ~NewTrack(doc.tracks, i) THEN << >>
        ELSE [k \in 1..Len(doc.tracks[i].train_signals) |->
                SignalStateOf(doc.tracks[i].train_signals[k].state)]])

\* load_from_file up to Simulation(graph): what was read, or ok FALSE when it raises
LoadFromFile(doc) ==
    IF ~LoadSucceeds(doc) THEN [ok |-> FALSE]
    ELSE [ok |-> TRUE, scn |-> LoadedScene(doc), placement |-> LoadedPlacement(doc),
          sig0 |-> LoadedSignals(doc)]

\* No simulation file: open() raises and nothing is read
NoFile == [json |-> FALSE, keys |-> {}, tracks |-> << >>, trains |-> << >>, train_keys |-> << >>]

\* The fields save_to_file reads, of a graph without trains and all signals red
BlankState(g) ==
    [train  |-> [k \in Tracks(g) |-> NoTrain],
     facing |-> << >>,
     dest   |-> << >>,
     signal |-> [x \in Signals(g) |-> FALSE]]

\* The scene a saved scene is loaded as
SavedScene(scn) == LoadedScene(SaveToFile(Graph(scn), BlankState(Graph(scn))))

\* The scenes, each scene as it is loaded after it was saved, and that one
\* saved and loaded again: the first load orders the junctions by their first
\* appearance in the document, which turns the tracks of the next document
\* whose "to" junction appeared first; a third document equals the second.
AllScenes ==
    Scenes \o [i \in 1..Len(Scenes) |-> SavedScene(Scenes[i])]
           \o [i \in 1..Len(Scenes) |-> SavedScene(SavedScene(Scenes[i]))]

\* A track between two junctions and a junction added without a track:
\* graph.add_node(0), graph.add_node(2), graph.add_edge(0, 1)
IsolatedScene ==
    [edges   |-> << <<0, 1, 10>> >>,
     signals |-> << >>,
     trains  |-> << >>,
     nodes   |-> <<0, 2, 1>>]

\* The graph of a scene that names its nodes
GraphWithNodes(scn) == GraphOf(scn, scn.nodes, AdjTable(scn.edges, scn.nodes))

\* The index of the graph with the junction without a track
IsolatedSceneId == Len(AllScenes) + 1

Graphs ==
    [sc \in 1..IsolatedSceneId |->
        IF sc = IsolatedSceneId THEN GraphWithNodes(IsolatedScene) ELSE Graph(AllScenes[sc])]

\* The first scene with these add_edge calls and signals
SceneOf(scn) ==
    CHOOSE sc \in 1..Len(AllScenes) :
        /\ AllScenes[sc].edges = scn.edges /\ AllScenes[sc].signals = scn.signals
        /\ \A k \in 1..(sc - 1) :
              ~(AllScenes[k].edges = scn.edges /\ AllScenes[k].signals = scn.signals)

(***************************************************************************)
(* The Simulation.  A simulation state s is a record of the mutable fields *)
(* (train, facing, routed, switch, signal), the trains' static dest, and   *)
(* raised: an exception is propagating, so the rest of the call is skipped.*)
(***************************************************************************)
\* No junction: next_junct = None in update_train
NoJunction == -1

\* Junction.switch_state = None, before set_switch_state was called
NoSwitch == <<>>

Raise(s) == [s EXCEPT !.raised = TRUE]

\* Junction.connected_junctions of every junction: [] as constructed, the
\* sorted neighbours once _initial_property_setup has reached the junction,
\* which is when its switch state is first set
ConnectedJunctions(g, s) ==
    [n \in DOMAIN g.connected |-> IF s.switch[n] = NoSwitch THEN << >> ELSE g.connected[n]]

\* Junction.get_switch_state: the pair, or NoSwitch where the code raises IndexError
GetSwitchState(s, junction) == s.switch[junction]

\* set_switch_state that stores the junction itself in place of junct1
SetSwitchStateStoresSelf(g, s, junction, junct1, junct2) ==
    IF ~InSeq(junct1, g.connected[junction]) THEN Raise(s)
    ELSE IF ~InSeq(junct2, g.connected[junction]) THEN Raise(s)
    ELSE [s EXCEPT !.switch[junction] = <<junction, junct2>>]

\* set_switch_state that tests only junct1 for membership
SetSwitchStateTestsFirst(g, s, junction, junct1, junct2) ==
    IF ~InSeq(junct1, g.connected[junction]) THEN Raise(s)
    ELSE [s EXCEPT !.switch[junction] = <<junct1, junct2>>]

\* Junction.set_switch_state(junct1, junct2)
SetSwitchState(g, s, junction, junct1, junct2) ==
    IF ~InSeq(junct1, g.connected[junction]) THEN Raise(s)
    ELSE IF ~InSeq(junct2, g.connected[junction]) THEN Raise(s)
    ELSE [s EXCEPT !.switch[junction] = <<junct1, junct2>>]

\* get_all_trains: the trains in graph.edges order
GetAllTrains(g, s) ==
    [i \in 1..Len(SelectSeq(g.edges, LAMBDA e : s.train[g.track[e]] # NoTrain)) |->
        s.train[g.track[SelectSeq(g.edges, LAMBDA e : s.train[g.track[e]] # NoTrain)[i]]]]

\* get_edge_tup_for_train: the first edge whose track holds the train,
\* <<>> where the code raises IndexError
GetEdgeTupForTrain(g, s, t) ==
    LET i == FirstIndex(g.edges, LAMBDA e : s.train[g.track[e]] = t)
    IN  IF i = 0 THEN <<>> ELSE g.edges[i]

\* The end of an edge that is not the given junction
OtherEnd(edge_tup, junction) ==
    IF edge_tup[1] = junction THEN edge_tup[2] ELSE edge_tup[1]

\* get_junction_behind_train (the train is on a track)
GetJunctionBehindTrain(g, s, t) == OtherEnd(GetEdgeTupForTrain(g, s, t), s.facing[t])

\* get_tracks_for_junction_path: the track of every consecutive pair
GetTracksForJunctionPath(g, junction_path) ==
    [i \in 1..(Len(junction_path) - 1) |-> g.track[<<junction_path[i], junction_path[i + 1]>>]]

\* set_track_route_for_train that does not clear the tracks with the train
KeepTrackRoute(s, t) == s

\* set_track_route_for_train: track.trains_routed_along_track.clear() on
\* every track that has the train
ClearTrackRoute(s, t) ==
    [s EXCEPT !.routed = [k \in DOMAIN @ |-> IF t \in @[k] THEN {} ELSE @[k]]]

\* set_track_route_for_train: path_track.trains_routed_along_track.add(train)
AddTrackRoute(s, t, path_tracks) ==
    [s EXCEPT !.routed = [k \in DOMAIN @ |-> IF InSeq(k, path_tracks) THEN @[k] \cup {t} ELSE @[k]]]

\* set_track_route_for_train that keeps the last path whose second junction
\* is not the junction behind the train, 0 if none
SelectLastTrainPath(train_paths, junction_behind_train) ==
    LET ok == {i \in 1..Len(train_paths) : train_paths[i][2] # junction_behind_train}
    IN  IF ok = {} THEN 0 ELSE CHOOSE i \in ok : \A j \in ok : j <= i

\* set_track_route_for_train: index of the first path whose second junction
\* is not the junction behind the train, 0 if none
SelectTrainPath(train_paths, junction_behind_train) ==
    FirstIndex(train_paths, LAMBDA path : path[2] # junction_behind_train)

\* set_track_route_for_train after the early return: s has the old route cleared
PlanTrackRoute(g, s, t, train_paths, i) ==
    IF train_paths = <<>> THEN Raise(s)
    ELSE IF i = 0 THEN s
    ELSE AddTrackRoute(s, t, GetTracksForJunctionPath(g, train_paths[i]))

\* set_track_route_for_train
SetTrackRouteForTrain(g, s, t) ==
    IF s.facing[t] = s.dest[t] THEN s
    ELSE PlanTrackRoute(g, ClearTrackRoute(s, t), t, g.paths[s.facing[t]][s.dest[t]],
                        SelectTrainPath(g.paths[s.facing[t]][s.dest[t]],
                                        GetJunctionBehindTrain(g, s, t)))

\* move_train that also makes the new facing junction the train's destination
MoveTrainRetargets(g, s, old_track, new_facing_junction) ==
    LET t == s.train[old_track]
    IN  IF t = NoTrain THEN Raise(s)
        ELSE IF <<s.facing[t], new_facing_junction>> \notin DOMAIN g.track THEN Raise(s)
        ELSE IF s.train[g.track[<<s.facing[t], new_facing_junction>>]] # NoTrain THEN s
        ELSE [s EXCEPT !.facing[t] = new_facing_junction,
                       !.dest[t] = new_facing_junction,
                       !.train = [@ EXCEPT ![g.track[<<s.facing[t], new_facing_junction>>]] = t,
                                           ![old_track] = NoTrain]]

\* move_train without the check that the new track is free
MoveTrainUnchecked(g, s, old_track, new_facing_junction) ==
    LET t == s.train[old_track]
    IN  IF t = NoTrain THEN Raise(s)
        ELSE IF <<s.facing[t], new_facing_junction>> \notin DOMAIN g.track THEN Raise(s)
        ELSE [s EXCEPT !.facing[t] = new_facing_junction,
                       !.train = [@ EXCEPT ![g.track[<<s.facing[t], new_facing_junction>>]] = t,
                                           ![old_track] = NoTrain]]

\* move_train(old_track, new_facing_junction)
MoveTrain(g, s, old_track, new_facing_junction) ==
    LET t == s.train[old_track]
    IN  IF t = NoTrain THEN Raise(s)
        ELSE IF <<s.facing[t], new_facing_junction>> \notin DOMAIN g.track THEN Raise(s)
        ELSE IF s.train[g.track[<<s.facing[t], new_facing_junction>>]] # NoTrain THEN s
        ELSE [s EXCEPT !.facing[t] = new_facing_junction,
                       !.train = [@ EXCEPT ![g.track[<<s.facing[t], new_facing_junction>>]] = t,
                                           ![old_track] = NoTrain]]

\* get_signal(track, junction): the first signal of the track attached to the
\* junction, 0 when there is none
GetSignal(g, track, junction) ==
    LET i == FirstIndex(TrainSignalsOf(g, track), LAMBDA sig : g.signals[sig][3] = junction)
    IN  IF i = 0 THEN 0 ELSE TrainSignalsOf(g, track)[i]

\* update_train that takes the member of the switch state that is behind the train
NextJunctBehind(current_edge, switch) ==
    IF switch[1] = current_edge[1] \/ switch[1] = current_edge[2] THEN switch[1]
    ELSE IF switch[2] = current_edge[1] \/ switch[2] = current_edge[2] THEN switch[2]
    ELSE NoJunction

\* update_train: the junction the facing junction's switch leads to
NextJunct(current_edge, switch) ==
    IF switch[1] = current_edge[1] \/ switch[1] = current_edge[2] THEN switch[2]
    ELSE IF switch[2] = current_edge[1] \/ switch[2] = current_edge[2] THEN switch[1]
    ELSE NoJunction

\* update_train that does not look at the signal
SignalOkAlways(s, train_signal) == TRUE

\* update_train: no red signal on the train's track at its facing junction
SignalOk(s, train_signal) == ~(train_signal # 0 /\ ~s.signal[train_signal])

\* update_train, up to the move
MoveIfPermitted(g, s, t, current_edge, switch) ==
    IF switch[1] = switch[2] THEN s
    ELSE IF /\ NextJunct(current_edge, switch) # NoJunction
            /\ SignalOk(s, GetSignal(g, g.track[current_edge], s.facing[t]))
    THEN MoveTrain(g, s, g.track[current_edge], NextJunct(current_edge, switch))
    ELSE s

\* update_train, the last statement
RouteAfterMove(g, s, t) == IF s.raised THEN s ELSE SetTrackRouteForTrain(g, s, t)

\* update_train
UpdateTrain(g, s, t) ==
    IF GetEdgeTupForTrain(g, s, t) = <<>> \/ GetSwitchState(s, s.facing[t]) = NoSwitch
    THEN Raise(s)
    ELSE RouteAfterMove(g, MoveIfPermitted(g, s, t, GetEdgeTupForTrain(g, s, t),
                                           GetSwitchState(s, s.facing[t])), t)

\* edges_left_on_route.remove: (last, next) if it is there, else (next, last)
RemoveEdge(edges_left, last_junct, next_junct) ==
    LET r1 == FirstIndex(edges_left, LAMBDA e : e = <<last_junct, next_junct>>)
        r2 == FirstIndex(edges_left, LAMBDA e : e = <<next_junct, last_junct>>)
        r  == IF r1 # 0 THEN r1 ELSE r2
    IN  SubSeq(edges_left, 1, r - 1) \o SubSeq(edges_left, r + 1, Len(edges_left))

RECURSIVE SortRoute(_, _, _)
\* get_sorted_junctions_for_route, the end of one round of the while loop
AppendToRoute(sorted_junctions, edges_left, dest, next_junct) ==
    IF next_junct = dest THEN Append(sorted_junctions, next_junct)
    ELSE SortRoute(Append(sorted_junctions, next_junct),
                   RemoveEdge(edges_left, sorted_junctions[Len(sorted_junctions)], next_junct),
                   dest)

\* get_sorted_junctions_for_route, the while loop: follow the first edge left
\* that contains the last junction; <<>> where the code raises IndexError
SortRoute(sorted_junctions, edges_left, dest) ==
    LET last_junct == sorted_junctions[Len(sorted_junctions)]
        i == FirstIndex(edges_left, LAMBDA e : last_junct = e[1] \/ last_junct = e[2])
    IN  IF i = 0 THEN <<>>
        ELSE AppendToRoute(sorted_junctions, edges_left, dest, OtherEnd(edges_left[i], last_junct))

\* get_sorted_junctions_for_route: the edges the train is on or routed along
EdgeTupsOnRoute(g, s, t) ==
    SelectSeq(g.edges, LAMBDA e : t \in s.routed[g.track[e]] \/ s.train[g.track[e]] = t)

\* get_sorted_junctions_for_route: from the junction behind the train along
\* the train's own track and the tracks it is routed on, to its destination
GetSortedJunctionsForRoute(g, s, t) ==
    IF GetEdgeTupForTrain(g, s, t) = <<>> THEN <<>>
    ELSE SortRoute(<<GetJunctionBehindTrain(g, s, t)>>, EdgeTupsOnRoute(g, s, t), s.dest[t])

RECURSIVE SwitchLoopAnyJunction(_, _, _, _, _)
\* set_switches_for_train_route that also switches the junctions with fewer
\* than three connected junctions
SwitchLoopAnyJunction(g, st, junctions_on_route, junction_idx, exclude_junctions) ==
    IF junction_idx > Len(junctions_on_route) - 1 \/ st.s.raised THEN st
    ELSE IF junctions_on_route[junction_idx] \in exclude_junctions
    THEN SwitchLoopAnyJunction(g, st, junctions_on_route, junction_idx + 1, exclude_junctions)
    ELSE SwitchLoopAnyJunction(g,
                    [s   |-> SetSwitchState(g, st.s, junctions_on_route[junction_idx],
                                            junctions_on_route[junction_idx - 1],
                                            junctions_on_route[junction_idx + 1]),
                     set |-> st.set \cup {junctions_on_route[junction_idx]}],
                    junctions_on_route, junction_idx + 1, exclude_junctions)

RECURSIVE SwitchLoop(_, _, _, _, _)
\* set_switches_for_train_route, the loop over the interior junctions
SwitchLoop(g, st, junctions_on_route, junction_idx, exclude_junctions) ==
    IF junction_idx > Len(junctions_on_route) - 1 \/ st.s.raised THEN st
    ELSE IF Len(g.connected[junctions_on_route[junction_idx]]) < 3
    THEN SwitchLoop(g, st, junctions_on_route, junction_idx + 1, exclude_junctions)
    ELSE IF junctions_on_route[junction_idx] \in exclude_junctions
    THEN SwitchLoop(g, st, junctions_on_route, junction_idx + 1, exclude_junctions)
    ELSE SwitchLoop(g,
                    [s   |-> SetSwitchState(g, st.s, junctions_on_route[junction_idx],
                                            junctions_on_route[junction_idx - 1],
                                            junctions_on_route[junction_idx + 1]),
                     set |-> st.set \cup {junctions_on_route[junction_idx]}],
                    junctions_on_route, junction_idx + 1, exclude_junctions)

\* set_switches_for_train_route that switches the excluded junctions too
SwitchRouteNoExclusion(g, s, junctions_on_route, exclude_junctions) ==
    IF junctions_on_route = <<>> THEN [s |-> Raise(s), set |-> {}]
    ELSE SwitchLoop(g, [s |-> s, set |-> {}], junctions_on_route, 2, {})

\* set_switches_for_train_route, given the sorted route
SwitchRoute(g, s, junctions_on_route, exclude_junctions) ==
    IF junctions_on_route = <<>> THEN [s |-> Raise(s), set |-> {}]
    ELSE SwitchLoop(g, [s |-> s, set |-> {}], junctions_on_route, 2, exclude_junctions)

\* set_switches_for_train_route: [s: the state after, set: the junctions switched]
SetSwitchesForTrainRoute(g, s, t, exclude_junctions) ==
    SwitchRoute(g, s, GetSortedJunctionsForRoute(g, s, t), exclude_junctions)

\* set_signals_for_train_route, first loop over get_all_tracks(): the signals
\* attached to a junction of the route, unless excluded, go red
RedSignals(g, junctions_on_route, exclude_signals) ==
    {i \in 1..Len(g.signals) :
        /\ g.signals[i][2] \in Tracks(g)
        /\ InSeq(g.signals[i][3], junctions_on_route)
        /\ i \notin exclude_signals}

\* set_signals_for_train_route that also turns green the signals attached to
\* the junction behind the train
GreenSignalsBehindToo(g, junctions_on_route, tracks_on_route, exclude_signals, junction_behind_train) ==
    {i \in 1..Len(g.signals) :
        /\ InSeq(g.signals[i][2], tracks_on_route)
        /\ InSeq(g.signals[i][3], junctions_on_route)
        /\ i \notin exclude_signals}

\* set_signals_for_train_route, second loop: of these, the signals on the
\* tracks of the route go green, unless attached to the junction behind the train
GreenSignals(g, junctions_on_route, tracks_on_route, exclude_signals, junction_behind_train) ==
    {i \in 1..Len(g.signals) :
        /\ InSeq(g.signals[i][2], tracks_on_route)
        /\ InSeq(g.signals[i][3], junctions_on_route)
        /\ i \notin exclude_signals
        /\ g.signals[i][3] # junction_behind_train}

\* set_signals_for_train_route, given the signals of the two loops
SignalRoute(s, reds, greens) ==
    [s   |-> [s EXCEPT !.signal = [sig \in DOMAIN @ |->
                 IF sig \in greens THEN TRUE ELSE IF sig \in reds THEN FALSE ELSE @[sig]]],
     set |-> reds \cup greens]

\* set_signals_for_train_route, given the sorted route
SignalsOnRoute(g, s, t, junctions_on_route, exclude_signals) ==
    IF junctions_on_route = <<>> THEN [s |-> Raise(s), set |-> {}]
    ELSE SignalRoute(s, RedSignals(g, junctions_on_route, exclude_signals),
                     GreenSignals(g, junctions_on_route,
                                  GetTracksForJunctionPath(g, junctions_on_route),
                                  exclude_signals, GetJunctionBehindTrain(g, s, t)))

\* set_signals_for_train_route: [s: the state after, set: the signals set]
SetSignalsForTrainRoute(g, s, t, exclude_signals) ==
    SignalsOnRoute(g, s, t, GetSortedJunctionsForRoute(g, s, t), exclude_signals)

RECURSIVE UpdateTrains(_, _, _)
\* advance, the loop "for train in self.get_all_trains(): self.update_train(train)"
UpdateTrains(g, s, trains) ==
    IF trains = <<>> \/ s.raised THEN s
    ELSE UpdateTrains(g, UpdateTrain(g, s, Head(trains)), Tail(trains))

RECURSIVE Arbitrate(_, _, _, _, _)
\* advance that does not add the signals a train set to signals_already_set
ArbitrateNextForgetsSignals(g, sg, trains, switches_already_set, signals_already_set) ==
    Arbitrate(g, sg.s, Tail(trains), switches_already_set, signals_already_set)

\* advance, the loop over unfinished_trains_sorted: the end of one round
ArbitrateNext(g, sg, trains, switches_already_set, signals_already_set) ==
    Arbitrate(g, sg.s, Tail(trains), switches_already_set, signals_already_set \cup sg.set)

\* advance that does not add the junctions a train switched to switches_already_set
ArbitrateSignalsForgetsSwitches(g, sw, trains, switches_already_set, signals_already_set) ==
    IF sw.s.raised THEN sw.s
    ELSE ArbitrateNext(g, SetSignalsForTrainRoute(g, sw.s, Head(trains), signals_already_set),
                       trains, switches_already_set, signals_already_set)

\* advance, the loop over unfinished_trains_sorted: the signals of one train
ArbitrateSignals(g, sw, trains, switches_already_set, signals_already_set) ==
    IF sw.s.raised THEN sw.s
    ELSE ArbitrateNext(g, SetSignalsForTrainRoute(g, sw.s, Head(trains), signals_already_set),
                       trains, switches_already_set \cup sw.set, signals_already_set)

\* advance, the loop over unfinished_trains_sorted with the two exclusion lists
Arbitrate(g, s, trains, switches_already_set, signals_already_set) ==
    IF trains = <<>> \/ s.raised THEN s
    ELSE ArbitrateSignals(g, SetSwitchesForTrainRoute(g, s, Head(trains), switches_already_set),
                          trains, switches_already_set, signals_already_set)

\* advance: the trains of get_all_trains() that are not at their destination,
\* sorted by identifier; a train is in the list once for every track it is on
UnfinishedTrainsSorted(g, s) ==
    LET all    == GetAllTrains(g, s)
        idents == SortAsc({t \in SeqToSet(all) : s.facing[t] # s.dest[t]})
    IN  Flatten([i \in 1..Len(idents) |->
                    [k \in 1..Cardinality({p \in 1..Len(all) : all[p] = idents[i]}) |->
                        idents[i]]])

RECURSIVE ArbitrationCalls(_, _, _, _, _)
\* advance, the loop over unfinished_trains_sorted: the calls it makes, one
\* record for every round, with the state set_switches_for_train_route is
\* called in and its exclude_junctions, and the state
\* set_signals_for_train_route is called in and its exclude_signals
ArbitrationCalls(g, s, trains, switches_already_set, signals_already_set) ==
    IF trains = <<>> \/ s.raised THEN <<>>
    ELSE LET sw == SetSwitchesForTrainRoute(g, s, Head(trains), switches_already_set)
             sg == SetSignalsForTrainRoute(g, sw.s, Head(trains), signals_already_set)
         IN  <<[train             |-> Head(trains),
                at_switches       |-> s,
                exclude_junctions |-> switches_already_set,
                signals_called    |-> ~sw.s.raised,
                at_signals        |-> sw.s,
                exclude_signals   |-> signals_already_set]>>
             \o (IF sw.s.raised THEN <<>>
                 ELSE ArbitrationCalls(g, sg.s, Tail(trains),
                                       switches_already_set \cup sw.set,
                                       signals_already_set \cup sg.set))

\* advance that looks for unfinished trains after the trains were moved
AdvanceTrainsReturnsLate(g, s, unfinished_trains_sorted) ==
    IF Len(unfinished_trains_sorted) # 0
    THEN [s    |-> Arbitrate(g, UpdateTrains(g, s, GetAllTrains(g, s)),
                             unfinished_trains_sorted, {}, {}),
          more |-> Len(UnfinishedTrainsSorted(g, UpdateTrains(g, s, GetAllTrains(g, s)))) # 0]
    ELSE [s |-> s, more |-> FALSE]

\* advance that updates and arbitrates also when every train is at its destination
AdvanceTrainsAlways(g, s, unfinished_trains_sorted) ==
    [s    |-> Arbitrate(g, UpdateTrains(g, s, GetAllTrains(g, s)),
                        unfinished_trains_sorted, {}, {}),
     more |-> Len(unfinished_trains_sorted) # 0]

\* advance, given the unfinished trains:
\* [s: the state after, more: the value returned unless s.raised]
AdvanceTrains(g, s, unfinished_trains_sorted) ==
    IF Len(unfinished_trains_sorted) # 0
    THEN [s    |-> Arbitrate(g, UpdateTrains(g, s, GetAllTrains(g, s)),
                             unfinished_trains_sorted, {}, {}),
          more |-> TRUE]
    ELSE [s |-> s, more |-> FALSE]

\* advance, up to "self.step += 1"
AdvanceSim(g, s) == AdvanceTrains(g, s, UnfinishedTrainsSorted(g, s))

(***************************************************************************)
(* Construction: Simulation.__init__ and _initial_property_setup.          *)
(***************************************************************************)
\* The default switch state of a junction, from its neighbours sorted by identifier
\* switch_tup taken from the last two adjacent junctions
DefaultSwitchTupLastTwo(adj_junctions) ==
    IF Len(adj_junctions) = 1 THEN <<adj_junctions[1], adj_junctions[1]>>
    ELSE <<adj_junctions[Len(adj_junctions) - 1], adj_junctions[Len(adj_junctions)]>>

DefaultSwitchTup(adj_junctions) ==
    IF Len(adj_junctions) = 1 THEN <<adj_junctions[1], adj_junctions[1]>>
    ELSE IF Len(adj_junctions) = 2 THEN <<adj_junctions[1], adj_junctions[2]>>
    ELSE <<adj_junctions[1], adj_junctions[2]>>

RECURSIVE SetInitialSwitches(_, _, _)
\* _initial_property_setup, the loop over graph.nodes
SetInitialSwitches(g, s, junctions) ==
    IF junctions = <<>> \/ s.raised THEN s
    ELSE IF Len(g.connected[Head(junctions)]) = 0 THEN Raise(s)
    ELSE SetInitialSwitches(g,
             SetSwitchState(g, s, Head(junctions),
                            DefaultSwitchTup(g.connected[Head(junctions)])[1],
                            DefaultSwitchTup(g.connected[Head(junctions)])[2]),
             Tail(junctions))

RECURSIVE SetInitialRoutes(_, _, _)
\* _initial_property_setup, the loop "for train in self.get_all_trains()"
SetInitialRoutes(g, s, trains) ==
    IF trains = <<>> \/ s.raised THEN s
    ELSE SetInitialRoutes(g, SetTrackRouteForTrain(g, s, Head(trains)), Tail(trains))

\* track.train of the tracks of the graph after "track.train = train" for
\* every record of the placement in order: the last record of a track counts
PlacedTrains(g, placement) ==
    [k \in Tracks(g) |->
        IF \E i \in 1..Len(placement) : placement[i][2] = k
        THEN placement[CHOOSE i \in 1..Len(placement) :
                          /\ placement[i][2] = k
                          /\ \A m \in (i + 1)..Len(placement) : placement[m][2] # k][1]
        ELSE NoTrain]

\* The objects as constructed, before the Simulation is built on them.
\* placement: <<train ident, track, facing, dest>> records, a train that is
\* set on several tracks with the same facing and dest in each of its
\* records; sig0: signal states.  The trains are those on a track of the graph.
Constructed(g, placement, sig0) ==
    [train  |-> PlacedTrains(g, placement),
     facing |-> [t \in {PlacedTrains(g, placement)[k] : k \in Tracks(g)} \ {NoTrain} |->
                    placement[CHOOSE i \in 1..Len(placement) : placement[i][1] = t][3]],
     dest   |-> [t \in {PlacedTrains(g, placement)[k] : k \in Tracks(g)} \ {NoTrain} |->
                    placement[CHOOSE i \in 1..Len(placement) : placement[i][1] = t][4]],
     routed |-> [k \in Tracks(g) |-> {}],
     switch |-> [n \in Junctions(g) |-> NoSwitch],
     signal |-> sig0,
     raised |-> FALSE]

\* _initial_property_setup, the second loop
InitialRoutes(g, s) == IF s.raised THEN s ELSE SetInitialRoutes(g, s, GetAllTrains(g, s))

\* _initial_property_setup without its first loop
InitialPropertySetupRoutesOnly(g, s) == InitialRoutes(g, s)

\* _initial_property_setup
InitialPropertySetup(g, s) == InitialRoutes(g, SetInitialSwitches(g, s, g.nodes))

\* The trains on the tracks of a graph, where on[k] is the number of the
\* train that track k holds, or 0, and each of the n trains is on a track
TrackTrains(g, n) ==
    {on \in [Tracks(g) -> 0..n] : \A i \in 1..n : \E k \in Tracks(g) : on[k] = i}

\* The records of the trains on the tracks, by ascending track
PlacementOf(g, on, c) ==
    [i \in 1..Len(SortAsc({k \in Tracks(g) : on[k] # 0})) |->
        <<TrainIdent(on[SortAsc({k \in Tracks(g) : on[k] # 0})[i]]),
          SortAsc({k \in Tracks(g) : on[k] # 0})[i],
          c[on[SortAsc({k \in Tracks(g) : on[k] # 0})[i]]][1],
          c[on[SortAsc({k \in Tracks(g) : on[k] # 0})[i]]][2]>>]

\* Up to max_trains trains on the tracks of a graph.  Nothing is checked when
\* a Train is constructed or set on a track: a train faces any junction of
\* the graph, an end of its track or not, and is the train of any tracks
PlacementsUpTo(g, max_trains) ==
    UNION {
        {PlacementOf(g, oc[1], oc[2]) :
            oc \in TrackTrains(g, n) \X [1..n -> Junctions(g) \X Junctions(g)]}
        : n \in 0..max_trains}

\* The placements of a scene: the one it fixes, or up to MaxTrains trains
Placements(sc) ==
    IF Scenes[sc].trains # <<>> THEN {Scenes[sc].trains}
    ELSE PlacementsUpTo(Graphs[sc], MaxTrains)

\* The Train objects of a placement
PlacementTrains(placement) == {placement[i][1] : i \in 1..Len(placement)}

\* _next_ident after n more constructions, followed up to MaxIdent
CountTo(n) == IF n > MaxIdent THEN MaxIdent ELSE n

\* The SimObject constructions that build a graph and its trains: every
\* Junction, Track, TrainSignal and Train object is constructed once
Constructions(g, trains) ==
    Cardinality(Junctions(g)) + Cardinality(g.track_ids) + Len(g.signals) + trains

\* The first position of a sequence of truth values that is TRUE, or 0
FirstTrue(bs) == IF \E i \in 1..Len(bs) : bs[i]
                 THEN CHOOSE i \in 1..Len(bs) : bs[i] /\ \A k \in 1..(i - 1) : ~bs[k]
                 ELSE 0

\* load_from_file: the signals of track record i up to the first whose
\* junct_id is not in junction_lookup, and whether there is such a signal
SignalsRead(doc, i) ==
    [bad   |-> \E k \in 1..Len(doc.tracks[i].train_signals) :
                  doc.tracks[i].train_signals[k].junct_id \notin JunctionLookup(doc.tracks, i),
     count |-> IF \E k \in 1..Len(doc.tracks[i].train_signals) :
                     doc.tracks[i].train_signals[k].junct_id \notin JunctionLookup(doc.tracks, i)
               THEN FirstTrue([k \in 1..Len(doc.tracks[i].train_signals) |->
                        doc.tracks[i].train_signals[k].junct_id
                            \notin JunctionLookup(doc.tracks, i)]) - 1
               ELSE Len(doc.tracks[i].train_signals)]

RECURSIVE SumTo(_, _)
SumTo(f, n) == IF n = 0 THEN 0 ELSE f[n] + SumTo(f, n - 1)

\* load_from_file: the SimObject constructions of the first loop, which ends
\* at the first track record with a signal at an unknown junction: a Junction
\* for every ident not in junction_lookup, a TrainSignal for every signal
\* record, a Track for every track_id not in track_lookup
GraphConstructions(doc) ==
    LET read == [i \in 1..Len(doc.tracks) |-> SignalsRead(doc, i)]
        stop == FirstTrue([i \in 1..Len(doc.tracks) |-> read[i].bad])
        last == IF stop = 0 THEN Len(doc.tracks) ELSE stop
    IN  [raised |-> stop # 0,
         count  |-> Cardinality(JunctionLookup(doc.tracks, last))
                    + SumTo([i \in 1..last |-> read[i].count], last)
                    + Cardinality({doc.tracks[i].track_id :
                                      i \in 1..(IF stop = 0 THEN last ELSE last - 1)})]

\* load_from_file: the Train constructions of the second loop, over the train
\* records in the order of the file up to the first with an unknown junction
TrainConstructions(doc) ==
    LET order == doc.train_keys
        stop  == FirstTrue([i \in 1..Len(order) |->
                    \/ doc.trains[order[i]].dest_junction
                           \notin JunctionLookup(doc.tracks, Len(doc.tracks))
                    \/ doc.trains[order[i]].facing_junction
                           \notin JunctionLookup(doc.tracks, Len(doc.tracks))])
    IN  IF stop = 0 THEN Len(order) ELSE stop - 1

\* load_from_file: the SimObject constructions of one call, also of one that raises
LoadConstructions(doc) ==
    IF ~doc.json \/ "tracks" \notin doc.keys THEN 0
    ELSE IF GraphConstructions(doc).raised \/ "trains" \notin doc.keys
    THEN GraphConstructions(doc).count
    ELSE GraphConstructions(doc).count + TrainConstructions(doc)

\* The simulation state held by the variables
Cur ==
    [train  |-> train,
     facing |-> facing_junction,
     dest   |-> dest_junction,
     routed |-> trains_routed_along_track,
     switch |-> switch_state,
     signal |-> signal_state,
     raised |-> FALSE]

\* Simulation(graph): the fields after __init__ returned
Init ==
    \E sc \in SceneIds :
        \E placement \in Placements(sc) :
            \E sig0 \in [Signals(Graphs[sc]) -> BOOLEAN] :
                \E s \in {InitialPropertySetup(Graphs[sc], Constructed(Graphs[sc], placement, sig0))} :
                    /\ ~s.raised
                    /\ scene = sc
                    /\ train = s.train
                    /\ facing_junction = s.facing
                    /\ dest_junction = s.dest
                    /\ trains_routed_along_track = s.routed
                    /\ switch_state = s.switch
                    /\ signal_state = s.signal
                    /\ step = 0
                    /\ result = "none"
                    /\ next_ident = CountTo(Constructions(Graphs[sc], Cardinality(PlacementTrains(placement))))
                    /\ issued = << >>
                    /\ file = NoFile

\* advance that counts a step only when more updates are required
StepAfterCountsMoves(r) == IF r.s.raised \/ ~r.more THEN step ELSE step + 1

\* advance, "self.step += 1": not reached by a call that raises
StepAfter(r) == IF r.s.raised THEN step ELSE step + 1

\* One call of Simulation.advance().  A call that raises leaves the fields as
\* they were when the exception left advance() and does not reach "step += 1".
Advance ==
    /\ step < MaxStep
    /\ \E r \in {AdvanceSim(Graphs[scene], Cur)} :
           /\ train' = r.s.train
           /\ facing_junction' = r.s.facing
           /\ trains_routed_along_track' = r.s.routed
           /\ switch_state' = r.s.switch
           /\ signal_state' = r.s.signal
           /\ step' = StepAfter(r)
           /\ result' = IF r.s.raised THEN "raised" ELSE IF r.more THEN "true" ELSE "false"
           /\ dest_junction' = r.s.dest
    /\ UNCHANGED <<scene, next_ident, issued, file>>

\* An identifier no junction, track, signal or train of a scene has
MissingIdent == 99

\* Documents load_from_file raises on: text that does not parse, the key
\* "trains" or "tracks" missing, a train record missing, a train whose
\* destination junction is no junction of the document, the train records
\* in the opposite order with the destination of the last no junction of the
\* document, a signal at a junction not seen by its track record
DamagedDocuments(doc) ==
    {[doc EXCEPT !.json = FALSE],
     [doc EXCEPT !.keys = {"tracks"}],
     [doc EXCEPT !.keys = {"trains"}],
     [doc EXCEPT !.trains = << >>, !.train_keys = << >>],
     [doc EXCEPT !.trains = [t \in DOMAIN doc.trains |->
                                [doc.trains[t] EXCEPT !.dest_junction = MissingIdent]]],
     [doc EXCEPT !.train_keys = [i \in 1..Len(doc.train_keys) |->
                                    doc.train_keys[Len(doc.train_keys) + 1 - i]],
                 !.trains = [t \in DOMAIN doc.trains |->
                                IF t = doc.train_keys[1]
                                THEN [doc.trains[t] EXCEPT !.dest_junction = MissingIdent]
                                ELSE doc.trains[t]]],
     [doc EXCEPT !.tracks = [i \in 1..Len(doc.tracks) |->
            [doc.tracks[i] EXCEPT !.train_signals =
                [k \in 1..Len(doc.tracks[i].train_signals) |->
                    [doc.tracks[i].train_signals[k] EXCEPT !.junct_id = MissingIdent]]]]]}
        \ {doc}

\* The load handler that drops the simulation before it reads the file
LoadFileDropsFirst(old, r) ==
    IF ~r.ok THEN [old EXCEPT !.step = 0, !.loaded = FALSE]
    ELSE LET sc  == SceneOf(r.scn)
             sim == InitialPropertySetup(Graphs[sc], Constructed(Graphs[sc], r.placement, r.sig0))
         IN  IF sim.raised THEN [old EXCEPT !.step = 0, !.loaded = FALSE]
             ELSE [scene |-> sc, s |-> sim, step |-> 0, loaded |-> TRUE]

\* The load handler: new_sim = Simulation.load_from_file(path), then
\* set_simulation(new_sim); an exception leaves the simulation in use as it was
LoadFileHandler(old, r) ==
    IF ~r.ok THEN [old EXCEPT !.loaded = FALSE]
    ELSE LET sc  == SceneOf(r.scn)
             sim == InitialPropertySetup(Graphs[sc], Constructed(Graphs[sc], r.placement, r.sig0))
         IN  IF sim.raised THEN [old EXCEPT !.loaded = FALSE]
             ELSE [scene |-> sc, s |-> sim, step |-> 0, loaded |-> TRUE]

\* Loading the document doc into the running program
LoadFile(doc) ==
    \E w \in {LoadFileHandler([scene |-> scene, s |-> Cur, step |-> step, loaded |-> FALSE],
                              LoadFromFile(doc))} :
        /\ scene' = w.scene
        /\ train' = w.s.train
        /\ facing_junction' = w.s.facing
        /\ dest_junction' = w.s.dest
        /\ trains_routed_along_track' = w.s.routed
        /\ switch_state' = w.s.switch
        /\ signal_state' = w.s.signal
        /\ step' = w.step
        /\ result' = IF w.loaded THEN "loaded" ELSE "load_failed"
        /\ next_ident' = CountTo(next_ident + LoadConstructions(doc))
        /\ issued' = issued
        /\ file' = file

\* The save handler: simulation.save_to_file(file_path) of the simulation in
\* use, which reads the simulation and writes the file
SaveFileAs ==
    /\ file' = SaveToFile(Graphs[scene], Cur)
    /\ result' = "saved"
    /\ UNCHANGED <<scene, train, facing_junction, dest_junction, trains_routed_along_track,
                   switch_state, signal_state, step, next_ident, issued>>

\* The load handler given the simulation file, whatever was saved to it and
\* whatever the simulation in use has done since
LoadSaved == LoadFile(file)

\* The load handler given a damaged copy of the simulation file
LoadDamaged == \E doc \in DamagedDocuments(file) : LoadFile(doc)

Next == Advance

Spec == Init /\ [][Next]_vars

\* A valid placement: every train is on one track and faces one of the two
\* junctions that track joins
ValidPlacement ==
    \A t \in DOMAIN facing_junction :
        /\ Cardinality({k \in DOMAIN train : train[k] = t}) = 1
        /\ \E e \in DOMAIN Graphs[scene].track :
              train[Graphs[scene].track[e]] = t /\ facing_junction[t] = e[1]

\* The simulations constructed with a valid placement
ValidInit == Init /\ ValidPlacement

ValidSpec == ValidInit /\ [][Next]_vars

PersistNext == Advance \/ SaveFileAs \/ LoadSaved \/ LoadDamaged

\* self.step of a Simulation that was not constructed
NoStep == -1

\* The trains placed where the junction interface is followed
MaxJunctionTrains == 1

\* The graphs the junction interface is followed on: the fork listed out of
\* order and the graph with a junction without a track
JunctionScenes == {sc \in SceneIds : Scenes[sc] = ShuffledScene} \cup {IsolatedSceneId}

\* The junctions, tracks, signals and trains as constructed, before
\* Simulation(graph): no switch state, no connected_junctions, signals red
JunctionInit ==
    \E sc \in JunctionScenes :
        \E placement \in PlacementsUpTo(Graphs[sc], MaxJunctionTrains) :
            \E sig0 \in {[x \in Signals(Graphs[sc]) |-> FALSE]} :
                \E s \in {Constructed(Graphs[sc], placement, sig0)} :
                    /\ scene = sc
                    /\ train = s.train
                    /\ facing_junction = s.facing
                    /\ dest_junction = s.dest
                    /\ trains_routed_along_track = s.routed
                    /\ switch_state = s.switch
                    /\ signal_state = s.signal
                    /\ step = NoStep
                    /\ result = "none"
                    /\ next_ident = CountTo(Constructions(Graphs[sc], Cardinality(PlacementTrains(placement))))
                    /\ issued = << >>
                    /\ file = NoFile

\* Simulation(graph).  When _initial_property_setup raises, no Simulation
\* exists and the junctions keep what the loop had assigned.
Construct ==
    /\ step = NoStep
    /\ \E s \in {InitialPropertySetup(Graphs[scene], Cur)} :
           /\ trains_routed_along_track' = s.routed
           /\ switch_state' = s.switch
           /\ step' = IF s.raised THEN NoStep ELSE 0
           /\ result' = IF s.raised THEN "construct_failed" ELSE "constructed"
    /\ UNCHANGED <<scene, train, facing_junction, dest_junction, signal_state,
                   next_ident, issued, file>>

\* The graph in use with connected_junctions as the junctions hold them now
CurGraph == [Graphs[scene] EXCEPT !.connected = ConnectedJunctions(Graphs[scene], Cur)]

\* junction.set_switch_state(junct1, junct2) on the objects g, s0
SetSwitchStateCalled(g, s0, junction, junct1, junct2) ==
    /\ \E s \in {SetSwitchState(g, s0, junction, junct1, junct2)} :
           /\ switch_state' = s.switch
           /\ result' = IF s.raised THEN "set_failed" ELSE "set"
    /\ UNCHANGED <<scene, train, facing_junction, dest_junction,
                   trains_routed_along_track, signal_state, step, next_ident, issued, file>>

\* junction.set_switch_state(junct1, junct2) called from outside the simulation
CallSetSwitchState(junction, junct1, junct2) ==
    SetSwitchStateCalled(CurGraph, Cur, junction, junct1, junct2)

\* junction.get_switch_state() called from outside the simulation
CallGetSwitchState(junction) ==
    /\ result' = IF GetSwitchState(Cur, junction) = NoSwitch THEN "get_failed" ELSE "got"
    /\ UNCHANGED <<scene, train, facing_junction, dest_junction,
                   trains_routed_along_track, switch_state, signal_state, step,
                   next_ident, issued, file>>

\* advance() of the Simulation that was constructed
AdvanceConstructed == step # NoStep /\ Advance

JunctionNext ==
    \/ Construct
    \/ AdvanceConstructed
    \/ \E junction, junct1, junct2 \in Junctions(Graphs[scene]) :
           CallSetSwitchState(junction, junct1, junct2)
    \/ \E junction \in Junctions(Graphs[scene]) : CallGetSwitchState(junction)

\* The junction interface called between construction and the steps
JunctionSpec == JunctionInit /\ [][JunctionNext]_vars

\* SimObject.__init__ of an entity constructed after the simulation was
\* loaded: self.ident = _next_ident, _next_ident += 1
ConstructEntity ==
    /\ next_ident < MaxIdent
    /\ issued' = Append(issued, next_ident)
    /\ next_ident' = next_ident + 1
    /\ UNCHANGED <<scene, train, facing_junction, dest_junction, trains_routed_along_track,
                   switch_state, signal_state, step, result, file>>

\* The documents the program is started with when saving and loading is
\* followed: the line without signals and the line listed out of order
PersistScenes == {sc \in SceneIds : Scenes[sc] \in {LineScene, ReversedScene, OffTrackScene}}

PersistInit == Init /\ scene \in PersistScenes

\* The program with the simulation saved and loaded between the steps
PersistSpec == PersistInit /\ [][PersistNext]_vars

RegistryNext == ConstructEntity \/ SaveFileAs \/ LoadSaved

\* Entities constructed after a simulation was loaded, and loads between them
RegistrySpec == PersistInit /\ [][RegistryNext]_vars

(***************************************************************************)
(* Properties.                                                             *)
(***************************************************************************)
\* The graph the simulation runs on
G == Graphs[scene]

\* The trains of the simulation
Trains == DOMAIN facing_junction

\* facing_junction == dest_junction for every train
AllFinished == \A t \in Trains : facing_junction[t] = dest_junction[t]

\* The train is not at its destination
Unfinished(t) == facing_junction[t] # dest_junction[t]

\* The ordered junction route of a train, <<>> if it cannot be built
RouteOf(t) == GetSortedJunctionsForRoute(G, Cur, t)

\* The junction behind a train
BehindOf(t) == GetJunctionBehindTrain(G, Cur, t)

\* The simulation state the step leaves
CurNext ==
    [train  |-> train',
     facing |-> facing_junction',
     dest   |-> dest_junction',
     routed |-> trains_routed_along_track',
     switch |-> switch_state',
     signal |-> signal_state',
     raised |-> FALSE]

\* The ordered junction route of a train in the state the step leaves
RouteNext(t) == GetSortedJunctionsForRoute(G, CurNext, t)

\* The junction behind a train in the state the step leaves
BehindNext(t) == GetJunctionBehindTrain(G, CurNext, t)

\* The step is a call of advance() that returned
Returned == step' = step + 1

\* j is on the route, and neither its first nor its last junction
Interior(route, j) == \E i \in 2..(Len(route) - 1) : route[i] = j

\* The switch state the route asks of junction j
AsksSwitch(route, j, pair) ==
    \E i \in 2..(Len(route) - 1) : route[i] = j /\ pair = <<route[i - 1], route[i + 1]>>

\* The state the route of train t gives signal number i of the graph
AsksGreen(i, route, behind) ==
    /\ InSeq(G.signals[i][2], GetTracksForJunctionPath(G, route))
    /\ G.signals[i][3] # behind

\* The switch of the train's facing junction leads it onto a track that
\* another train is on
Blocked(t) ==
    LET e  == GetEdgeTupForTrain(G, Cur, t)
        sw == switch_state[facing_junction[t]]
    IN  /\ sw[1] # sw[2]
        /\ NextJunct(e, sw) # NoJunction
        /\ SignalOk(Cur, GetSignal(G, G.track[e], facing_junction[t]))
        /\ train[G.track[<<facing_junction[t], NextJunct(e, sw)>>]] \notin {NoTrain, t}

\* C1: no two distinct trains occupy the same track: every track holds one
\* of the trains or none, and as many tracks are occupied as there are trains,
\* so move_train never put a train on a track that had one.
C1_Occupancy ==
    /\ \A k \in DOMAIN train : train[k] = NoTrain \/ train[k] \in Trains
    /\ Cardinality({k \in DOMAIN train : train[k] # NoTrain}) = Cardinality(Trains)

\* C1 witness: after an advance(), a train's switch leads onto an occupied track
C1_Witness == step >= 1 /\ \E t \in Trains : Blocked(t)

\* C2: both members of every junction's switch_state are among that
\* junction's connected_junctions.
C2_SwitchValid ==
    \A j \in Junctions(G) :
        /\ switch_state[j] # NoSwitch
        /\ InSeq(switch_state[j][1], G.connected[j])
        /\ InSeq(switch_state[j][2], G.connected[j])

\* C2 witness: arbitration has set a switch to other than its default
C2_Witness ==
    /\ step >= 1
    /\ \E j \in Junctions(G) : switch_state[j] # DefaultSwitchTup(G.connected[j])

\* C3: when advance() returns, every fork that is an interior junction of the
\* route of some train that was unfinished at the call has the (prev, next)
\* pair of the lowest-identifier such train; a later train did not set it again.
C3_SwitchPriority ==
    [][Returned =>
        \A j \in Junctions(G) : \A t \in Trains :
            ( /\ Len(G.connected[j]) >= 3
              /\ Unfinished(t)
              /\ Interior(RouteNext(t), j)
              /\ \A u \in Trains : (u < t /\ Unfinished(u)) => ~Interior(RouteNext(u), j) )
            => AsksSwitch(RouteNext(t), j, switch_state'[j])]_vars

\* C3 witness: two unfinished trains ask different states of the same fork,
\* and it has the state the lower identifier asks for
C3_Witness ==
    /\ step >= 1 /\ result = "true"
    /\ \E j \in Junctions(G) : \E t, u \in Trains :
          /\ t < u /\ Unfinished(t) /\ Unfinished(u)
          /\ Len(G.connected[j]) >= 3
          /\ Interior(RouteOf(t), j) /\ Interior(RouteOf(u), j)
          /\ AsksSwitch(RouteOf(t), j, switch_state[j])
          /\ ~AsksSwitch(RouteOf(u), j, switch_state[j])

\* C4: when advance() returns, every signal attached to a junction on the
\* route of some train that was unfinished at the call has the state the
\* lowest-identifier such train gives it: green iff its track is a track of
\* that route and it is not attached to the junction behind that train.
C4_SignalPriority ==
    [][Returned =>
        \A i \in 1..Len(G.signals) : \A t \in Trains :
            ( /\ Unfinished(t)
              /\ InSeq(G.signals[i][3], RouteNext(t))
              /\ \A u \in Trains : (u < t /\ Unfinished(u)) => ~InSeq(G.signals[i][3], RouteNext(u)) )
            => signal_state'[i] = AsksGreen(i, RouteNext(t), BehindNext(t))]_vars

\* C4 witness: two unfinished trains give a signal different states, and it
\* has the state of the lower identifier
C4_Witness ==
    /\ step >= 1 /\ result = "true"
    /\ \E i \in 1..Len(G.signals) : \E t, u \in Trains :
          /\ t < u /\ Unfinished(t) /\ Unfinished(u)
          /\ InSeq(G.signals[i][3], RouteOf(t)) /\ InSeq(G.signals[i][3], RouteOf(u))
          /\ AsksGreen(i, RouteOf(t), BehindOf(t)) # AsksGreen(i, RouteOf(u), BehindOf(u))
          /\ signal_state[i] = AsksGreen(i, RouteOf(t), BehindOf(t))

\* The graph is a tree (all scenes are connected)
IsTree == Len(G.edges) = Len(G.nodes) - 1

\* The train is at its destination or has a path to it that does not start
\* through the junction behind it
Feasible(t) ==
    \/ facing_junction[t] = dest_junction[t]
    \/ SelectTrainPath(G.paths[facing_junction[t]][dest_junction[t]], BehindOf(t)) # 0

\* Hops of a shortest path from the facing junction to the destination
Hops(t) ==
    IF facing_junction[t] = dest_junction[t] THEN 0
    ELSE Len(G.paths[facing_junction[t]][dest_junction[t]][1]) - 1

RECURSIVE SumHops(_)
SumHops(ts) ==
    IF ts = {} THEN 0
    ELSE LET t == CHOOSE t \in ts : TRUE IN Hops(t) + SumHops(ts \ {t})

\* advance() called again and again from state s returns false at its call
\* number n + 1 at the latest; a call that raises has not returned false
RECURSIVE ReturnsFalseWithin(_, _, _)
ReturnsFalseWithin(g, s, n) ==
    \E r \in {AdvanceSim(g, s)} :
        \/ ~r.s.raised /\ ~r.more
        \/ n > 0 /\ ReturnsFalseWithin(g, [r.s EXCEPT !.raised = FALSE], n - 1)

\* C5: on a tree where every train has a feasible non-reversing path,
\* repeated advance() calls on the constructed simulation come to return
\* false, and at most as many calls precede the first false as the trains'
\* shortest paths from their initial facing junctions have hops in total.
C5_Liveness ==
    (step = 0 /\ IsTree /\ \A t \in Trains : Feasible(t))
        => ReturnsFalseWithin(G, Cur, SumHops(Trains))

\* C7: a call of advance() that returns, returns false exactly when every
\* train was at its destination when it was called, and true otherwise.
C7_ReturnValue ==
    [][Returned => result' = (IF AllFinished THEN "false" ELSE "true")]_vars

\* C7 witness: the last call returned true and moved the last train to its
\* destination
C7_Witness == step >= 1 /\ result = "true" /\ Trains # {} /\ AllFinished

\* C8: advance() called with no unfinished train returns false and changes
\* nothing but the step counter.
C8_FinishedFrame ==
    [][AllFinished =>
        /\ step' = step + 1
        /\ result' = "false"
        /\ UNCHANGED <<switch_state, signal_state, train, trains_routed_along_track,
                       facing_junction>>]_vars

\* C8 witness: advance() returned false with a train whose switch leads on
\* to a free track
C8_Witness ==
    /\ step >= 1 /\ result = "false"
    /\ \E t \in Trains :
          LET e  == GetEdgeTupForTrain(G, Cur, t)
              sw == switch_state[facing_junction[t]]
          IN  /\ sw[1] # sw[2]
              /\ NextJunct(e, sw) # NoJunction
              /\ SignalOk(Cur, GetSignal(G, G.track[e], facing_junction[t]))
              /\ train[G.track[<<facing_junction[t], NextJunct(e, sw)>>]] = NoTrain

\* C9: the step counter starts at 0, a call of advance() that returns (true
\* or false) adds exactly 1 to it, and a call that raises leaves it.
C9_StepCounter ==
    /\ step = 0
    /\ [][\/ step' = step + 1 /\ result' \in {"true", "false"}
          \/ step' = step /\ result' = "raised"]_vars

\* C9 witness: calls have returned true and then false: a train that was
\* routed, so was not at its destination, is there now
C9_Witness ==
    /\ step >= 2 /\ result = "false"
    /\ \E t \in Trains : \E k \in DOMAIN train : t \in trains_routed_along_track[k]

\* Scenario A: the line of three junctions with one train bound for junction 2
ScenarioA == scene = 1 /\ Trains = {TrainIdent(1)} /\ dest_junction[TrainIdent(1)] = 2

\* C10 as stated: the train faces junction 0; the first advance() leaves it
\* facing junction 1, the second facing junction 2 and returns false.
C10_ScenarioA_Stated ==
    [][/\ (ScenarioA /\ step = 0 /\ facing_junction[TrainIdent(1)] = 0)
            => (step' = 1 /\ facing_junction'[TrainIdent(1)] = 1)
       /\ (ScenarioA /\ step = 1 /\ facing_junction[TrainIdent(1)] = 1)
            => (step' = 2 /\ facing_junction'[TrainIdent(1)] = 2 /\ result' = "false")]_vars

\* C10 amended: the train is on the track between junctions 0 and 1 and
\* faces junction 1; the first advance() returns true and leaves it facing
\* junction 2, the second returns false and leaves it there.
C10_ScenarioA ==
    [][/\ (ScenarioA /\ step = 0 /\ facing_junction[TrainIdent(1)] = 1 /\ train[10] = TrainIdent(1))
            => (step' = 1 /\ facing_junction'[TrainIdent(1)] = 2 /\ result' = "true")
       /\ (ScenarioA /\ step = 1 /\ result = "true")
            => (step' = 2 /\ facing_junction'[TrainIdent(1)] = 2 /\ result' = "false"
                /\ train'[11] = TrainIdent(1))]_vars

\* C10 witness: the second advance() of the scenario has returned
C10_Witness ==
    /\ ScenarioA /\ step = 2 /\ result = "false"
    /\ facing_junction[TrainIdent(1)] = 2 /\ train[11] = TrainIdent(1)
    /\ trains_routed_along_track[11] = {TrainIdent(1)}

\* Scenario B: the fork with one train on the track between junctions 0 and 1,
\* facing the fork, bound for junction 3
ScenarioB ==
    /\ scene = 3 /\ Trains = {TrainIdent(1)} /\ train[10] = TrainIdent(1)
    /\ facing_junction[TrainIdent(1)] = 1 /\ dest_junction[TrainIdent(1)] = 3

\* C11: in Scenario B the first advance() leaves the fork's switch_state at
\* (0, 3), not at the default (0, 2), and the train never takes the track to
\* junction 2.
C11_ScenarioB ==
    [][/\ (ScenarioB /\ step = 0) => switch_state'[1] = <<0, 3>>
       /\ (scene = 3 /\ Trains = {TrainIdent(1)} /\ dest_junction[TrainIdent(1)] = 3
             /\ train[11] = NoTrain) => train'[11] = NoTrain]_vars

\* The track a train is on in state s
TrackOf(s, t) == G.track[GetEdgeTupForTrain(G, s, t)]

\* The signal of the train's track attached to its facing junction, 0 if none
FacingSignal(t) == GetSignal(G, TrackOf(Cur, t), facing_junction[t])

\* The junction the switch of the train's facing junction leads it to
SwitchedTo(t) == NextJunct(GetEdgeTupForTrain(G, Cur, t), switch_state[facing_junction[t]])

\* The switch of the train's facing junction points from its track onward
SwitchPermits(t) ==
    /\ switch_state[facing_junction[t]][1] # switch_state[facing_junction[t]][2]
    /\ SwitchedTo(t) # NoJunction

\* The trains advance() updates before train t
TrainsBefore(trains, t) == SubSeq(trains, 1, FirstIndex(trains, LAMBDA x : x = t) - 1)

\* The state in which advance() updates train t, for the first time if
\* get_all_trains() has it more than once
AtUpdate(t) == UpdateTrains(G, Cur, TrainsBefore(GetAllTrains(G, Cur), t))

\* The states in which advance() calls update_train for train t: one for
\* every place the train has in get_all_trains()
UpdatesOf(t) ==
    {UpdateTrains(G, Cur, SubSeq(GetAllTrains(G, Cur), 1, i - 1)) :
        i \in {i \in 1..Len(GetAllTrains(G, Cur)) : GetAllTrains(G, Cur)[i] = t}}

\* C12: a train whose track has a red signal at its facing junction keeps its
\* facing junction and its track through advance(), whatever the switch; a
\* train whose signal there is green, whose switch points onward and whose
\* target track is free when it is updated, is moved by an advance() that
\* updates trains.
C12_RedSignal ==
    [][\A t \in Trains :
        /\ (FacingSignal(t) # 0 /\ ~signal_state[FacingSignal(t)])
             => (facing_junction'[t] = facing_junction[t]
                 /\ train'[TrackOf(Cur, t)] = t)
        /\ ( /\ ~AllFinished
             /\ FacingSignal(t) # 0 /\ signal_state[FacingSignal(t)]
             /\ SwitchPermits(t)
             /\ AtUpdate(t).train[G.track[<<facing_junction[t], SwitchedTo(t)>>]] = NoTrain )
             => (facing_junction'[t] = SwitchedTo(t)
                 /\ train'[G.track[<<facing_junction[t], SwitchedTo(t)>>]] = t)]_vars

\* C12 witness: after an advance() that returned true, an unfinished train
\* stands before a red signal with its switch pointing onward to a free track
C12_Witness ==
    /\ step >= 1 /\ result = "true"
    /\ \E t \in Trains :
          /\ Unfinished(t)
          /\ FacingSignal(t) # 0 /\ ~signal_state[FacingSignal(t)]
          /\ SwitchPermits(t)
          /\ train[G.track[<<facing_junction[t], SwitchedTo(t)>>]] = NoTrain

\* C13: the facing junction of every train on a track is one of the two
\* junctions the track joins.
C13_FacingEndpoint ==
    \A e \in DOMAIN G.track :
        train[G.track[e]] # NoTrain =>
            (facing_junction[train[G.track[e]]] = e[1] \/ facing_junction[train[G.track[e]]] = e[2])

\* C14: through one advance() every train keeps its facing junction and its
\* track, or faces a neighbour of its facing junction and is on the track
\* between the two.
C14_OneHop ==
    [][\A t \in Trains :
        \/ /\ facing_junction'[t] = facing_junction[t]
           /\ train'[TrackOf(Cur, t)] = t
        \/ /\ InSeq(facing_junction'[t], G.connected[facing_junction[t]])
           /\ train'[G.track[<<facing_junction[t], facing_junction'[t]>>]] = t]_vars


\* The graph of the simulation in use after the step
GNext == Graphs[scene']

\* The signal attachments of a graph: signal ident, track, junction
Attachments(g) == SeqToSet(g.signals)

\* The state of the signals by ident, track and junction
SignalStates(g, signal) == {<<g.signals[i], signal[i]>> : i \in 1..Len(g.signals)}

\* The step loads the file that holds the simulation in use as save_to_file
\* wrote it
LoadsSaved == result' = "loaded" /\ file = SaveToFile(G, Cur)

\* The load handler reads the simulation file, which holds what save_to_file
\* writes of the simulation in use
SavedFileLoaded == file = SaveToFile(G, Cur) /\ LoadSaved

\* C15: save_to_file followed by load_from_file yields a simulation, with the
\* same junction, track and signal identifiers, the same track identifier
\* between the same pairs of junctions, the same signal attachment and signal
\* state, and every train on the same track with the same facing junction and
\* destination junction.
C15_RoundTrip ==
    [][SavedFileLoaded =>
        /\ result' = "loaded"
        /\ Junctions(GNext) = Junctions(G)
        /\ Tracks(GNext) = Tracks(G)
        /\ SignalIdents(GNext) = SignalIdents(G)
        /\ GNext.track = G.track
        /\ Attachments(GNext) = Attachments(G)
        /\ SignalStates(GNext, signal_state') = SignalStates(G, signal_state)
        /\ train' = train
        /\ facing_junction' = facing_junction
        /\ dest_junction' = dest_junction]_vars

\* C20: a load_from_file that fails leaves the simulation in use as it was:
\* graph, switch states, signals, occupancy, reservations and step counter.
C20_FailedLoadKeepsSimulation ==
    [][result' = "load_failed" =>
        UNCHANGED <<scene, train, facing_junction, dest_junction,
                    trains_routed_along_track, switch_state, signal_state, step>>]_vars

\* A load failed after the simulation in use had advanced and reserved tracks.
C20_Witness ==
    /\ result = "load_failed"
    /\ step >= 1
    /\ \E k \in DOMAIN trains_routed_along_track : trains_routed_along_track[k] # {}
    /\ \E t \in Trains : Unfinished(t)

\* Junction.connected_junctions of a junction of the graph in use
ConnectedOf(junction) == SeqToSet(CurGraph.connected[junction])

\* C16: in every state, set_switch_state(a, b) fails when a or b is not in
\* the junction's connected_junctions and then leaves every switch state
\* unchanged, and when both are members it makes the junction's switch state
\* (a, b) whatever it was and changes no other junction's; and every call
\* made ends in one of these two ways.
C16_SetSwitchState ==
    /\ [](\E g \in {CurGraph} : \A junction, a, b \in Junctions(g) :
            \E r \in {SetSwitchState(g, Cur, junction, a, b)} :
                IF InSeq(a, g.connected[junction]) /\ InSeq(b, g.connected[junction])
                THEN ~r.raised /\ r.switch = [switch_state EXCEPT ![junction] = <<a, b>>]
                ELSE r.raised /\ r.switch = switch_state)
    /\ [][(result' = "set_failed" => switch_state' = switch_state)
           /\ (result' = "set" =>
                  \E junction \in Junctions(G) : \E a, b \in ConnectedOf(junction) :
                      switch_state' = [switch_state EXCEPT ![junction] = <<a, b>>])]_vars

\* After a step of a constructed simulation a call failed at the junction
\* with three neighbours, whose switch state an earlier call had replaced by a
\* pair that is neither the default nor one a route asks for.
C16_Witness ==
    /\ result = "set_failed"
    /\ step >= 1
    /\ scene \in SceneIds
    /\ switch_state[1] = <<3, 3>>

\* C17: a switch state once set is never unset; get_switch_state fails exactly
\* while the junction's switch state was never set; and once a Simulation is
\* constructed every junction of its graph has a switch state, in every step.
C17_SwitchStateSet ==
    /\ [](step # NoStep => \A junction \in Junctions(G) : switch_state[junction] # NoSwitch)
    /\ [][\A junction \in Junctions(G) :
            /\ switch_state[junction] # NoSwitch => switch_state'[junction] # NoSwitch
            /\ CallGetSwitchState(junction) =>
                  (result' = "get_failed" <=> switch_state[junction] = NoSwitch)]_vars

\* get_switch_state succeeded after a step of a simulation with a train.
C17_Witness ==
    /\ result = "got"
    /\ step >= 1
    /\ Trains # {}
    /\ \A junction \in Junctions(G) : switch_state[junction] # NoSwitch

\* The junctions joined to a junction by a track
Neighbours(junction) == {e[2] : e \in {e \in DOMAIN G.track : e[1] = junction}}

Lowest(S) == CHOOSE x \in S : \A y \in S : x <= y

\* C18: setup fails when a junction has no neighbour; otherwise it gives the
\* junction with one neighbour n the state (n, n) and the junction with two or
\* more neighbours its two lowest neighbours, lowest first.
C18_DefaultSwitch ==
    [][Construct =>
        IF \E junction \in Junctions(G) : Neighbours(junction) = {}
        THEN result' = "construct_failed" /\ step' = NoStep
        ELSE /\ result' = "constructed"
             /\ \A junction \in Junctions(G) :
                   switch_state'[junction] =
                       IF Cardinality(Neighbours(junction)) = 1
                       THEN <<Lowest(Neighbours(junction)), Lowest(Neighbours(junction))>>
                       ELSE <<Lowest(Neighbours(junction)),
                              Lowest(Neighbours(junction) \ {Lowest(Neighbours(junction))})>>]_vars

\* The fork was set up: junction 1, whose neighbours were added in the order
\* 2, 0, 3, has the state (0, 2)
C18_Witness ==
    /\ result = "constructed"
    /\ Graphs[scene].adj[1] = <<2, 0, 3>>
    /\ switch_state[1] = <<0, 2>>
    /\ switch_state[0] = <<1, 1>>

\* The idents of the junctions, tracks, signals and trains of the simulation
SimulationIdents == Junctions(G) \cup Tracks(G) \cup SignalIdents(G) \cup Trains

\* C19: the idents issued at construction are strictly increasing in
\* construction order, and no entity constructed after a load has the ident
\* of another or of an entity of the loaded simulation.
C19_UniqueIdents ==
    /\ \A i, j \in 1..Len(issued) : i < j => issued[i] < issued[j]
    /\ \A i \in 1..Len(issued) : issued[i] \notin SimulationIdents

\* C21: advance() leaves the graph (its junctions, its tracks and their
\* endpoints, the attachment of every signal), the connected_junctions of
\* every junction, the objects there are (tracks, junctions with a switch,
\* signals, trains) and the destination junction of every train as they were.
C21_StaticAttributes ==
    [][ (scene' = scene)
        /\ (dest_junction' = dest_junction)
        /\ (DOMAIN train' = DOMAIN train)
        /\ (DOMAIN facing_junction' = DOMAIN facing_junction)
        /\ (DOMAIN trains_routed_along_track' = DOMAIN trains_routed_along_track)
        /\ (DOMAIN switch_state' = DOMAIN switch_state)
        /\ (DOMAIN signal_state' = DOMAIN signal_state)
        /\ (ConnectedJunctions(GNext, CurNext) = ConnectedJunctions(G, Cur)) ]_vars

\* C21 witness: after three calls of advance() one train has been moved to its
\* destination and another is still under way
C21_Witness ==
    /\ step = 3 /\ result = "true"
    /\ \E t \in Trains : facing_junction[t] = dest_junction[t] /\ train[TrackOf(Cur, t)] = t
    /\ \E t \in Trains : Unfinished(t)

\* The switch state of the junction the train faces
FacingSwitch(t) == switch_state[facing_junction[t]]

\* advance() changed the facing junction or the track of the train
Moved(t) == facing_junction'[t] # facing_junction[t] \/ train'[TrackOf(Cur, t)] # t

\* The member of the facing junction's switch state that is not behind the train
Onward(t) == IF FacingSwitch(t)[1] = BehindOf(t) THEN FacingSwitch(t)[2] ELSE FacingSwitch(t)[1]

\* Neither member of the facing junction's switch state is a junction of the
\* train's track
SwitchedAway(t) ==
    LET e == GetEdgeTupForTrain(G, Cur, t)
    IN  {FacingSwitch(t)[1], FacingSwitch(t)[2]} \cap {e[1], e[2]} = {}

\* C22: advance() changes the facing junction or the track of a train only if
\* the switch state (A, B) of its facing junction has A # B, A or B is the
\* junction behind the train, no red signal of its track is attached to its
\* facing junction and the track to the other member is free when the train
\* is updated, and the train is then on that track facing the other member;
\* a train whose facing junction has A = B, or neither A nor B on the train's
\* track, keeps its facing junction and its track.
C22_MovementGuard ==
    [][\A t \in Trains :
        /\ Moved(t) =>
              ( /\ FacingSwitch(t)[1] # FacingSwitch(t)[2]
                /\ BehindOf(t) \in {FacingSwitch(t)[1], FacingSwitch(t)[2]}
                /\ ~(FacingSignal(t) # 0 /\ ~signal_state[FacingSignal(t)])
                /\ AtUpdate(t).train[G.track[<<facing_junction[t], Onward(t)>>]] = NoTrain
                /\ facing_junction'[t] = Onward(t)
                /\ train'[G.track[<<facing_junction[t], Onward(t)>>]] = t )
        /\ (FacingSwitch(t)[1] = FacingSwitch(t)[2] \/ SwitchedAway(t)) => ~Moved(t)]_vars

\* In state s0, in which advance() updates train t, update_train calls
\* move_train for it and the track the move targets has a train
TargetOccupied(s0, t) ==
    LET e  == GetEdgeTupForTrain(G, s0, t)
        sw == GetSwitchState(s0, s0.facing[t])
    IN  /\ ~s0.raised
        /\ sw[1] # sw[2]
        /\ NextJunct(e, sw) # NoJunction
        /\ SignalOk(s0, GetSignal(G, G.track[e], s0.facing[t]))
        /\ s0.train[G.track[<<s0.facing[t], NextJunct(e, sw)>>]] # NoTrain

\* The state update_train(t), called in state s0, leaves when move_train has
\* returned, before it plans the route of the train
AfterMoveFrom(s0, t) ==
    IF s0.raised THEN s0
    ELSE MoveIfPermitted(G, s0, t, GetEdgeTupForTrain(G, s0, t), GetSwitchState(s0, s0.facing[t]))

\* The state in which the update_train(t) of advance() plans the route of t
AfterMove(t) == AfterMoveFrom(AtUpdate(t), t)

\* The states in which the calls update_train(t) of advance() plan the route of t
AfterMoves(t) == {AfterMoveFrom(s0, t) : s0 \in UpdatesOf(t)}

\* C23: when update_train moves a train towards a track that has a train,
\* move_train returns without an exception and leaves every train on its
\* track with its facing junction: the moving train, the train of the target
\* track and the source track are as they were.
C23_OccupiedTarget ==
    \A t \in Trains : ~AllFinished =>
        \A s0 \in UpdatesOf(t) : TargetOccupied(s0, t) =>
            \A s1 \in {AfterMoveFrom(s0, t)} :
                /\ ~s1.raised
                /\ s1.facing = s0.facing
                /\ s1.train = s0.train
                /\ s1 = s0

\* C23 witness: after an advance() that returned true, the next advance()
\* moves a train towards a track that another train is on
C23_Witness ==
    /\ step >= 1 /\ result = "true" /\ ~AllFinished
    /\ \E t \in Trains : \E s0 \in {AtUpdate(t)} :
          /\ TargetOccupied(s0, t)
          /\ s0.train[G.track[<<facing_junction[t], SwitchedTo(t)>>]] \notin {NoTrain, t}

\* The tracks whose trains_routed_along_track has train t, in state s
TracksRoutedFor(s, t) == {k \in DOMAIN s.routed : t \in s.routed[k]}

\* C24: set_track_route_for_train for a train whose facing junction is its
\* destination junction leaves the train in the trains_routed_along_track of
\* no track.
C24_ArrivedHoldsNothing ==
    \A t \in Trains :
        facing_junction[t] = dest_junction[t] =>
            TracksRoutedFor(SetTrackRouteForTrain(G, Cur, t), t) = {}

\* The junction paths set_track_route_for_train chooses from in state s:
\* those from the facing junction of t to its destination whose second
\* junction is not the junction behind t
Candidates(s, t) ==
    {i \in 1..Len(G.paths[s.facing[t]][s.dest[t]]) :
        G.paths[s.facing[t]][s.dest[t]][i][2] # GetJunctionBehindTrain(G, s, t)}

\* set_track_route_for_train(t), called in state s, finds a candidate path
PlansRoute(s, t) ==
    ~s.raised /\ s.facing[t] # s.dest[t] /\ Candidates(s, t) # {}

\* set_track_route_for_train(t), called in state s, finds paths to the
\* destination and no candidate among them
NoRouteFound(s, t) ==
    /\ ~s.raised /\ s.facing[t] # s.dest[t]
    /\ G.paths[s.facing[t]][s.dest[t]] # <<>>
    /\ Candidates(s, t) = {}

\* The tracks between the successive junctions of a path
TracksAlong(path) == {G.track[<<path[n], path[n + 1]>>] : n \in 1..(Len(path) - 1)}

\* C25: after set_track_route_for_train for a train that is not at its
\* destination and has a candidate path, the tracks whose
\* trains_routed_along_track has the train are the tracks of one candidate
\* path from its facing junction to its destination, and no others: no track
\* of an earlier plan that is off that path still has the train.
C25_RouteIsPath ==
    [](\A t \in Trains : ~AllFinished =>
          \A s0 \in AfterMoves(t) : PlansRoute(s0, t) =>
              \A s1 \in {SetTrackRouteForTrain(G, s0, t)} :
                  \E i \in Candidates(s0, t) :
                      LET path == G.paths[s0.facing[t]][dest_junction[t]][i]
                      IN  /\ path[1] = s0.facing[t]
                          /\ path[Len(path)] = dest_junction[t]
                          /\ TracksRoutedFor(s1, t) = TracksAlong(path))

\* C25 witness: after an advance() that returned true, the next one moves a
\* train that is then still short of its destination, has a candidate path
\* and has a reservation of its earlier plan on a track off its new route
C25_Witness ==
    /\ step >= 1 /\ result = "true" /\ ~AllFinished
    /\ \E t \in Trains : \E s0 \in {AfterMove(t)} :
          /\ PlansRoute(s0, t)
          /\ s0.facing[t] # facing_junction[t]
          /\ ~(TracksRoutedFor(s0, t) \subseteq TracksRoutedFor(SetTrackRouteForTrain(G, s0, t), t))

\* Every train other than t is in the trains_routed_along_track of the same
\* tracks in states s0 and s1
OthersKeepRoutes(s0, s1, t) ==
    \A u \in Trains \ {t} : TracksRoutedFor(s1, u) = TracksRoutedFor(s0, u)

\* C26: set_track_route_for_train for train t leaves every other train in the
\* trains_routed_along_track of the tracks it was in, and of no others, both
\* when called on the simulation as it stands and when update_train calls it.
C26_OthersKeepRoutes ==
    \A t \in Trains :
        /\ OthersKeepRoutes(Cur, SetTrackRouteForTrain(G, Cur, t), t)
        /\ ~AllFinished =>
              \A s0 \in {AfterMove(t)} : ~s0.raised =>
                  OthersKeepRoutes(s0, SetTrackRouteForTrain(G, s0, t), t)

\* The junctions js and the junctions one track away from them
Near(js) == js \cup {n \in SeqToSet(G.nodes) : \E j \in js : <<j, n>> \in DOMAIN G.track}

RECURSIVE Distance(_, _)
\* The least number of tracks from a junction of js to the target, -1 if
\* there is no way
Distance(js, target) ==
    IF target \in js THEN 0
    ELSE IF Near(js) = js THEN -1
    ELSE IF Distance(Near(js), target) = -1 THEN -1
    ELSE 1 + Distance(Near(js), target)

\* A shortest way from the facing junction of t to its destination, in state
\* s, starts with a junction that is not the junction behind t
ShortestAhead(s, t) ==
    \E n \in Near({s.facing[t]}) \ {s.facing[t], GetJunctionBehindTrain(G, s, t)} :
        /\ Distance({n}, s.dest[t]) # -1
        /\ 1 + Distance({n}, s.dest[t]) = Distance({s.facing[t]}, s.dest[t])

\* A junction path of the graph without a repeated junction
SimplePath(path) ==
    /\ Len(path) >= 2
    /\ \A n \in 1..(Len(path) - 1) : <<path[n], path[n + 1]>> \in DOMAIN G.track
    /\ \A m, n \in 1..Len(path) : path[m] = path[n] => m = n

\* C27: the tracks set_track_route_for_train reserves for a train that is not
\* at its destination and has a candidate path are those of a junction path
\* without a repeated junction, from its facing junction to its destination,
\* whose second junction is not the junction behind the train; that path has
\* as few tracks as any way to the destination whenever some shortest way
\* starts with a junction other than the one behind the train.
C27_ChosenPath ==
    [](\A t \in Trains : ~AllFinished =>
          \A s0 \in AfterMoves(t) : PlansRoute(s0, t) =>
              \A routed \in {TracksRoutedFor(SetTrackRouteForTrain(G, s0, t), t)} :
                  \E path \in SeqToSet(G.paths[s0.facing[t]][dest_junction[t]]) :
                      /\ routed = TracksAlong(path)
                      /\ SimplePath(path)
                      /\ path[1] = s0.facing[t]
                      /\ path[Len(path)] = dest_junction[t]
                      /\ path[2] # GetJunctionBehindTrain(G, s0, t)
                      /\ ShortestAhead(s0, t) =>
                            Len(path) - 1 = Distance({s0.facing[t]}, dest_junction[t]))

\* C27 witness: after an advance() that returned true, the next one plans a
\* route for a train whose every shortest way to its destination starts
\* with the junction behind it, and reserves a longer way round
C27_Witness ==
    /\ step >= 1 /\ result = "true" /\ ~AllFinished
    /\ \E t \in Trains : \E s0 \in {AfterMove(t)} :
          /\ PlansRoute(s0, t)
          /\ ~ShortestAhead(s0, t)
          /\ Cardinality(TracksRoutedFor(SetTrackRouteForTrain(G, s0, t), t))
                > Distance({s0.facing[t]}, dest_junction[t])

\* C28: set_track_route_for_train for a train that is not at its destination
\* and has no candidate path (every path to its destination starts with the
\* junction behind it) leaves the trains_routed_along_track of every track
\* as it was.
C28_NoPathNoChange ==
    \A t \in Trains : ~AllFinished =>
        \A s0 \in {AfterMove(t)} : NoRouteFound(s0, t) =>
            SetTrackRouteForTrain(G, s0, t).routed = s0.routed

\* C29: a call of advance() in which update_train finds no candidate path
\* for an unfinished train returns true and has incremented step.
C29_NoRouteNotFatal ==
    [][(\E t \in Trains : Unfinished(t) /\ NoRouteFound(AfterMove(t), t))
          => (step' = step + 1 /\ result' = "true")]_vars

\* The state in which advance() starts to set switches and signals
Updated == UpdateTrains(G, Cur, GetAllTrains(G, Cur))

\* The trains advance() sets switches and signals for, when update_train
\* has left state up: the members of unfinished_trains_sorted
Arbitrated(up) == IF up.raised THEN {} ELSE SeqToSet(UnfinishedTrainsSorted(G, Cur))

\* The calls of set_switches_for_train_route and set_signals_for_train_route
\* advance() makes from the current state
Calls == ArbitrationCalls(G, Updated, UnfinishedTrainsSorted(G, Cur), {}, {})

\* The junctions set_switches_for_train_route is to switch: at a place of the
\* route that is neither its first nor its last, with three or more
\* neighbours, and not excluded
ToSwitch(route, exclude_junctions) ==
    {j \in SeqToSet(G.nodes) :
        Interior(route, j) /\ Cardinality(Neighbours(j)) >= 3 /\ j \notin exclude_junctions}

\* The junctions of the route other than the junction behind the train and
\* the destination, with three or more neighbours, and not excluded
OffEndsToSwitch(route, exclude_junctions) ==
    {j \in SeqToSet(route) :
        /\ j # route[1] /\ j # route[Len(route)]
        /\ Cardinality(Neighbours(j)) >= 3 /\ j \notin exclude_junctions}

\* C30 as stated: from a valid placement, set_switches_for_train_route sets
\* the switch of the junctions of the train's ordered route that are neither
\* the junction behind the train nor the destination, have three or more
\* neighbours and are not excluded; it returns these junctions and leaves
\* every other switch as it was.
C30_SwitchesOnRoute_Stated ==
    (ValidPlacement /\ ~AllFinished) =>
        \A c \in SeqToSet(Calls) :
            \A route \in {GetSortedJunctionsForRoute(G, c.at_switches, c.train)} : route # <<>> =>
                \A r \in {SetSwitchesForTrainRoute(G, c.at_switches, c.train, c.exclude_junctions)} :
                    /\ r.set = OffEndsToSwitch(route, c.exclude_junctions)
                    /\ \A j \in DOMAIN switch_state \ OffEndsToSwitch(route, c.exclude_junctions) :
                          r.s.switch[j] = c.at_switches.switch[j]

\* C30: set_switches_for_train_route sets the switch of the junctions that
\* are at a place of the train's ordered route other than the first (the
\* junction behind the train) and the last (its destination), have three or
\* more neighbours and are not excluded, each to the route's junction before
\* it and the route's junction after it; it returns these junctions, and
\* leaves every other switch and everything else as it was.
C30_SwitchesOnRoute ==
    [](~AllFinished =>
          \A c \in SeqToSet(Calls) :
              \A route \in {GetSortedJunctionsForRoute(G, c.at_switches, c.train)} : route # <<>> =>
                  \A r \in {SwitchRoute(G, c.at_switches, route, c.exclude_junctions)} :
                      /\ r = SetSwitchesForTrainRoute(G, c.at_switches, c.train, c.exclude_junctions)
                      /\ r.set = ToSwitch(route, c.exclude_junctions)
                      /\ \A j \in ToSwitch(route, c.exclude_junctions) :
                            AsksSwitch(route, j, r.s.switch[j])
                      /\ \A j \in DOMAIN switch_state \ ToSwitch(route, c.exclude_junctions) :
                            r.s.switch[j] = c.at_switches.switch[j]
                      /\ r.s = [c.at_switches EXCEPT !.switch = r.s.switch])

\* C30 witness: after an advance() that returned true, the next one sets
\* switches for a train whose route has a junction to switch and another
\* with three neighbours that a train before it has switched
C30_Witness ==
    /\ step >= 1 /\ result = "true" /\ ~AllFinished
    /\ \E c \in SeqToSet(Calls) :
          LET route == GetSortedJunctionsForRoute(G, c.at_switches, c.train)
              ex    == c.exclude_junctions
          IN  /\ route # <<>>
              /\ ToSwitch(route, ex) # {}
              /\ ToSwitch(route, {}) # ToSwitch(route, ex)
              /\ \E j \in ToSwitch(route, ex) :
                    SetSwitchesForTrainRoute(G, c.at_switches, c.train, ex).s.switch[j]
                        # c.at_switches.switch[j]

\* The signals set_signals_for_train_route is to set: attached to a junction
\* of the route and not excluded
ToSignal(route, exclude_signals) ==
    {sig \in Signals(G) : InSeq(G.signals[sig][3], route) /\ sig \notin exclude_signals}

\* The signal is on a track between two successive junctions of the route
\* and is not attached to the junction behind the train
GreenOnRoute(sig, route, behind) ==
    G.signals[sig][2] \in TracksAlong(route) /\ G.signals[sig][3] # behind

\* C31: set_signals_for_train_route sets the signals that are attached to a
\* junction of the train's route and not excluded, and returns them: green
\* the ones on a track of the route that are not attached to the junction
\* behind the train, red the others; it leaves every other signal, excluded
\* or away from the route, and everything else as it was.
C31_SignalsOnRoute ==
    [](~AllFinished =>
          \A c \in {k \in SeqToSet(Calls) : k.signals_called} :
              \A route \in {GetSortedJunctionsForRoute(G, c.at_signals, c.train)} : route # <<>> =>
                  \A r \in {SetSignalsForTrainRoute(G, c.at_signals, c.train, c.exclude_signals)} :
                      /\ ~r.s.raised
                      /\ r.set = ToSignal(route, c.exclude_signals)
                      /\ \A sig \in ToSignal(route, c.exclude_signals) :
                            r.s.signal[sig] =
                                GreenOnRoute(sig, route,
                                             GetJunctionBehindTrain(G, c.at_signals, c.train))
                      /\ \A sig \in Signals(G) \ ToSignal(route, c.exclude_signals) :
                            r.s.signal[sig] = c.at_signals.signal[sig]
                      /\ r.s = [c.at_signals EXCEPT !.signal = r.s.signal])

\* C31 witness: after an advance() that returned true, the next one sets the
\* signals for a train with a signal of its own track attached to the
\* junction behind it, which goes red, and a signal it turns green
C31_Witness ==
    /\ step >= 1 /\ result = "true" /\ ~AllFinished
    /\ \E c \in {k \in SeqToSet(Calls) : k.signals_called} :
          LET route == GetSortedJunctionsForRoute(G, c.at_signals, c.train)
              ex    == c.exclude_signals
              r     == SetSignalsForTrainRoute(G, c.at_signals, c.train, ex)
          IN  /\ route # <<>>
              /\ \E sig \in ToSignal(route, ex) :
                    /\ G.signals[sig][2] \in TracksAlong(route)
                    /\ G.signals[sig][3] = GetJunctionBehindTrain(G, c.at_signals, c.train)
                    /\ ~r.s.signal[sig]
              /\ \E sig \in ToSignal(route, ex) : r.s.signal[sig] /\ ~c.at_signals.signal[sig]

\* The tracks a train is on
TracksOf(t) == {k \in DOMAIN train : train[k] = t}

\* C32: every train of the simulation is on exactly one track, and advance()
\* leaves on the tracks the trains that were on them: it drops none and puts
\* none on two tracks.
C32_TrainConservation ==
    [](\A t \in Trains : Cardinality(TracksOf(t)) = 1)
    /\ [][{train'[k] : k \in DOMAIN train'} \ {NoTrain} = {train[k] : k \in DOMAIN train} \ {NoTrain}]_vars

\* C33: a train whose facing junction is its destination junction still faces
\* it after any call of advance(), whether or not other trains are unfinished.
C33_ArrivalStable ==
    [][\A t \in Trains :
          facing_junction[t] = dest_junction[t] => facing_junction'[t] = dest_junction'[t]]_vars

\* C34: whenever update_train moves a train onto a track, the train was in
\* the trains_routed_along_track of that track just before the move.
C34_EntersReservedTrack ==
    \A t \in Trains : ~AllFinished =>
        \A s0 \in {AtUpdate(t)} : \A s1 \in {AfterMoveFrom(s0, t)} :
            (~s1.raised /\ s1.facing[t] # s0.facing[t]) => t \in s0.routed[TrackOf(s1, t)]

\* C35: when advance() has updated the trains, every train it sets switches
\* and signals for that is not at its destination has an ordered route:
\* its track and the tracks that have it in trains_routed_along_track are
\* the tracks of one junction path from the junction behind it to its
\* destination, so that get_sorted_junctions_for_route does not raise and
\* advance() does not abort.
C35_RouteContiguity ==
    ( ~AllFinished =>
        \A up \in {Updated} :
            /\ ~up.raised
            /\ \A t \in Arbitrated(up) : up.facing[t] # up.dest[t] =>
                  \A route \in {GetSortedJunctionsForRoute(G, up, t)} :
                      /\ route # <<>>
                      /\ route[1] = GetJunctionBehindTrain(G, up, t)
                      /\ route[Len(route)] = up.dest[t]
                      /\ TracksAlong(route) = TracksRoutedFor(up, t) \cup {TrackOf(up, t)} )
    /\ result # "raised"

\* The junction path set_track_route_for_train chooses for train t in state s
ChosenPath(s, t) ==
    G.paths[s.facing[t]][s.dest[t]][SelectTrainPath(G.paths[s.facing[t]][s.dest[t]],
                                                     GetJunctionBehindTrain(G, s, t))]

\* C36: when advance() has updated the trains, the ordered route
\* get_sorted_junctions_for_route gives for a train that has a candidate
\* path is the junction behind the train followed by the junction path
\* set_track_route_for_train chose for it, from its facing junction to its
\* destination.
C36_RouteIsChosenPath ==
    ~AllFinished =>
        \A up \in {Updated} : \A t \in Arbitrated(up) : PlansRoute(up, t) =>
            GetSortedJunctionsForRoute(G, up, t)
                = <<GetJunctionBehindTrain(G, up, t)>> \o ChosenPath(up, t)

\* The switch state _initial_property_setup gives a junction: its lowest
\* neighbour twice if it has one neighbour, else its two lowest neighbours
DefaultPair(j) ==
    IF Cardinality(Neighbours(j)) = 1 THEN <<Lowest(Neighbours(j)), Lowest(Neighbours(j))>>
    ELSE <<Lowest(Neighbours(j)), Lowest(Neighbours(j) \ {Lowest(Neighbours(j))})>>

\* C37: a junction with fewer than three neighbours has the switch state
\* setup gave it, and advance() leaves it so; the two members of the switch
\* state of a junction with two or more neighbours are different junctions.
C37_FixedSwitches ==
    [](\A j \in DOMAIN switch_state :
          /\ Cardinality(Neighbours(j)) < 3 => switch_state[j] = DefaultPair(j)
          /\ Cardinality(Neighbours(j)) >= 2 => switch_state[j][1] # switch_state[j][2])
    /\ [][\A j \in DOMAIN switch_state :
             Cardinality(Neighbours(j)) < 3 => switch_state'[j] = switch_state[j]]_vars

\* C37 witness: advance() has returned true and set the switch of a junction
\* with three neighbours away from its default, for a train whose route goes
\* on through a junction with two neighbours, from the higher to the lower
C37_Witness ==
    /\ step >= 1 /\ result = "true"
    /\ \E j \in DOMAIN switch_state :
          Cardinality(Neighbours(j)) >= 3 /\ switch_state[j] # DefaultPair(j)
    /\ \E t \in Trains : \E i \in 2..(Len(RouteOf(t)) - 1) :
          /\ Cardinality(Neighbours(RouteOf(t)[i])) = 2
          /\ RouteOf(t)[i - 1] > RouteOf(t)[i + 1]

\* A scene with the same add_edge calls made in the opposite order: the same
\* junctions, tracks, signals and identifiers, enumerated in another order
ReorderedScene(scn) ==
    [scn EXCEPT !.edges = [i \in 1..Len(scn.edges) |-> scn.edges[Len(scn.edges) + 1 - i]]]

\* The graph of every scene after its reordering
ReorderedGraphs == [sc \in SceneIds |-> Graph(ReorderedScene(Scenes[sc]))]

\* The fields advance() leaves in state s of a simulation on graph g, and
\* whether it raised
AdvanceOutcome(g, s) ==
    LET r == AdvanceSim(g, s).s
    IN  [train |-> r.train, facing |-> r.facing, routed |-> r.routed,
         switch |-> r.switch, signal |-> r.signal, raised |-> r.raised]

\* C38: advance() leaves the same train positions, reservations, switch
\* states and signal states on two simulations whose states are the same and
\* whose graphs differ only in the order the tracks were added.
C38_EdgeOrderIndependent ==
    AdvanceOutcome(ReorderedGraphs[scene], Cur) = AdvanceOutcome(G, Cur)

\* The program on the fork, with the simulation saved and loaded between
\* the calls of advance()
ResumeInit == Init /\ ValidPlacement /\ Scenes[scene] = ForkScene

ResumeNext == Advance \/ SaveFileAs \/ LoadSaved

ResumeSpec == ResumeInit /\ [][ResumeNext]_vars

\* C39: the simulation that load_from_file makes of what save_to_file wrote
\* has the switch state of the saved one at every junction, and the next
\* advance() leaves the trains on the tracks and facing the junctions that
\* it would have left them on and facing in the saved one.
C39_ResumeAfterLoad ==
    [][LoadsSaved =>
        /\ switch_state' = switch_state
        /\ AdvanceSim(GNext, CurNext).s.train = AdvanceSim(G, Cur).s.train
        /\ AdvanceSim(GNext, CurNext).s.facing = AdvanceSim(G, Cur).s.facing]_vars

====
